---- MODULE Spec2Model ----
(***************************************************************************)
(* Range-based audio streaming with server-side multi-quality transcoding: *)
(* the upload/ingest route, the stream route with its metadata cache, and  *)
(* the play debouncer of the streaming server.                             *)
(***************************************************************************)
EXTENDS Integers, Sequences, FiniteSets, Bags, TLC

VARIABLES
    now,            \* Date.now(), milliseconds
    db,             \* prisma.track: track id -> track record (NoTrack when absent)
    cache,          \* redis track:meta:<id> entries (NoTrack when absent)
    cacheAt,        \* per entry: when redis expires it, when its value was read
    disk,           \* files under config.uploadDir: path -> file
    plays,          \* redis counters plays:<id>
    playCount,      \* prisma.track: the playCount column, track id -> number
    trendingCache,  \* redis trending:tracks: the cached list and when it expires
    playHistory,    \* prisma.playHistory rows, in creation order
    playDebounce,   \* the module-level Map of trackPlay: key -> timestamp
    neverPruned,    \* the Map of a debouncer that takes the same calls and never prunes
    playTasks,      \* trackPlay calls suspended at an await (a bag)
    ingest,         \* upload requests in flight: run -> local state
    req,            \* stream requests in flight: slot -> local state
    player,         \* the client's player store (usePlayerStore) and its Howl
    resp            \* the response completed by the last step (NoResp otherwise)

vars == <<now, db, cache, cacheAt, disk, plays, playCount, trendingCache, playHistory,
          playDebounce,
          neverPruned, playTasks, ingest, req, player, resp>>

---------------------------------------------------------------------------
(* Bounds of the model *)

MaxIngests == 2          \* upload requests (each creates at most one track)
T0 == 100000             \* Date.now() when the process starts

---------------------------------------------------------------------------
(* Program constants *)

streamChunkSize == 65536     \* config.streamChunkSize = 64 * 1024
DebounceMs == 30000          \* trackPlay: now - lastPlay < 30000
PruneSize == 10000           \* trackPlay: playDebounce.size > 10000
PruneAgeMs == 60000          \* trackPlay: cutoff = now - 60000
PlayStartBytes == 1000       \* stream route: start < 1000
CacheTtl == 3600             \* cache.set(..., 3600), in seconds
targetPoints == 200          \* generateWaveform: const targetPoints = 200
TrendingTtl == 300           \* cache.set(cacheKeys.trending(), tracks, 300), in seconds

---------------------------------------------------------------------------
(* Values *)

Users == {"u1", "u2"}
NoUser == "none"

Runs == 1 .. MaxIngests
TrackIds == Runs \cup {1, 2}  \* the track created by run i has id i
UnknownId == 0               \* an id no track ever has

Tiers == <<"low", "medium", "high">>
TierSet == {"low", "medium", "high"}
Kinds == {"orig"} \cup TierSet

\* A relative file path `audio/<baseName>.<ext>` or `audio/<baseName>_<tier>.mp3`;
\* baseName is the uuid of the upload, here the run number.
Path(i, k) == [run |-> i, kind |-> k]
NoPath == [run |-> 0, kind |-> "null"]
Paths == {Path(i, k) : i \in Runs, k \in Kinds}

NoFile == [state |-> "absent", size |-> 0]
File(st, n) == [state |-> st, size |-> n]

NoTrack == [id |-> 0, fileUrl |-> NoPath, fileUrlLow |-> NoPath,
            fileUrlMedium |-> NoPath, fileUrlHigh |-> NoPath,
            isPublic |-> FALSE, artistId |-> NoUser]

\* A JavaScript number that may be NaN: <<n>> or <<>>.
NaN == <<>>
Num(n) == <<n>>
IsNum(x) == x # NaN
Val(x) == x[1]

Min(a, b) == IF a <= b THEN a ELSE b

---------------------------------------------------------------------------
(* Strings of the Range header.  A header value is a sequence of tokens:    *)
(* the literal "bytes=", the dash "-", decimal digits, the plus sign "+",   *)
(* " " standing for any white space character, and "x" standing for any    *)
(* other character.  <<>> is a missing (or empty) header.                   *)

DigitChars == <<"0", "1", "2", "3", "4", "5", "6", "7", "8", "9">>
IsDigit(c) == \E d \in 1 .. 10 : DigitChars[d] = c
DigitVal(c) == (CHOOSE d \in 1 .. 10 : DigitChars[d] = c) - 1

\* String.prototype.replace(/bytes=/, ''): drops the first match only.
RECURSIVE ReplaceBytes(_)
ReplaceBytes(s) ==
    IF s = <<>> THEN <<>>
    ELSE IF Head(s) = "bytes=" THEN Tail(s)
    ELSE <<Head(s)>> \o ReplaceBytes(Tail(s))

\* String.prototype.split('-'): always at least one part.
RECURSIVE SplitDash(_)
SplitDash(s) ==
    IF s = <<>> THEN << <<>> >>
    ELSE IF Head(s) = "-" THEN << <<>> >> \o SplitDash(Tail(s))
    ELSE LET rest == SplitDash(Tail(s))
         IN  << <<Head(s)>> \o Head(rest) >> \o Tail(rest)

\* parseInt(s, 10) skips leading white space, takes an optional sign, and
\* gives the value of the longest prefix of digits that follows, NaN if none.
RECURSIVE TrimStart(_)
TrimStart(s) == IF s # <<>> /\ Head(s) = " " THEN TrimStart(Tail(s)) ELSE s

RECURSIVE DigitPrefix(_)
DigitPrefix(s) ==
    IF s = <<>> \/ ~IsDigit(Head(s)) THEN <<>>
    ELSE <<Head(s)>> \o DigitPrefix(Tail(s))

RECURSIVE DigitsValue(_)
DigitsValue(s) ==
    IF s = <<>> THEN 0
    ELSE DigitsValue(SubSeq(s, 1, Len(s) - 1)) * 10 + DigitVal(s[Len(s)])

parseInt(s) ==
    LET t      == TrimStart(s)
        signed == t # <<>> /\ Head(t) \in {"+", "-"}
        p      == DigitPrefix(IF signed THEN Tail(t) ELSE t)
    IN  IF p = <<>> THEN NaN
        ELSE IF signed /\ Head(t) = "-" THEN Num(0 - DigitsValue(p))
        ELSE Num(DigitsValue(p))

\* A variant that tests the parsed number instead of the string, so that an
\* end of 0 counts as missing.
HasEndNumeric(parts) ==
    Len(parts) >= 2 /\ parseInt(parts[2]) # NaN /\ parseInt(parts[2]) # Num(0)

\* The truthiness of parts[1]: undefined and '' are falsy, '0' is truthy.
HasEnd(parts) == Len(parts) >= 2 /\ parts[2] # <<>>

\* fs.createReadStream(path, {start, end}) throws ERR_OUT_OF_RANGE unless both
\* are integers >= 0 with start <= end.
ReadStreamThrows(start, end) ==
    \/ ~IsNum(start) \/ ~IsNum(end)
    \/ IsNum(start) /\ IsNum(end) /\ (Val(end) < 0 \/ Val(start) > Val(end))

\* The bytes a read stream over [first, last] delivers from a file of n bytes.
EmptyBody == [first |-> 0, last |-> -1]
BodyOf(first, last, n) ==
    IF first > Min(last, n - 1) THEN EmptyBody
    ELSE [first |-> first, last |-> Min(last, n - 1)]
BodyLen(b) == b.last - b.first + 1

---------------------------------------------------------------------------
(* routes/stream.ts *)

Truthy(p) == p # NoPath
Or(a, b) == IF Truthy(a) THEN a ELSE b

\* A variant whose chains do not end in the original.
getQualityFileNoOriginal(track, quality) ==
    CASE quality = "low" -> Or(track.fileUrlLow, track.fileUrlMedium)
      [] quality = "medium" -> track.fileUrlMedium
      [] quality = "high" -> track.fileUrlHigh
      [] quality = "lossless" -> track.fileUrl
      [] OTHER -> track.fileUrlMedium

\* A variant whose low chain skips the medium rendition.
getQualityFileSkipMedium(track, quality) ==
    CASE quality = "low" -> Or(track.fileUrlLow, track.fileUrl)
      [] quality = "medium" -> Or(track.fileUrlMedium, track.fileUrl)
      [] quality = "high" -> Or(track.fileUrlHigh, track.fileUrl)
      [] quality = "lossless" -> track.fileUrl
      [] OTHER -> Or(track.fileUrlMedium, track.fileUrl)

\* getQualityFile(track, quality)
getQualityFile(track, quality) ==
    CASE quality = "low" -> Or(track.fileUrlLow, Or(track.fileUrlMedium, track.fileUrl))
      [] quality = "medium" -> Or(track.fileUrlMedium, track.fileUrl)
      [] quality = "high" -> Or(track.fileUrlHigh, track.fileUrl)
      [] quality = "lossless" -> track.fileUrl
      [] OTHER -> Or(track.fileUrlMedium, track.fileUrl)

\* const quality = (req.query.quality as Quality) || 'medium'; "" is a missing
\* or empty query parameter.
QualityOf(param) == IF param = "" THEN "medium" ELSE param

\* existsSync(filePath)
existsSync(d, p) == p \in DOMAIN d /\ d[p].state # "absent"

\* The end of the served range when the header gives none.
DefaultEnd(start, fileSize) ==
    IF IsNum(start) THEN Num(Min(Val(start) + streamChunkSize, fileSize - 1)) ELSE NaN

\* A variant with an inclusive threshold.
NotifiesOnRangeInclusive(start, user) ==
    IsNum(start) /\ Val(start) <= PlayStartBytes /\ user # NoUser

\* start < 1000 && req.user
NotifiesOnRange(start, user) ==
    IsNum(start) /\ Val(start) < PlayStartBytes /\ user # NoUser

NoResp == [kind |-> "none"]

\* The synchronous tail of the handler, from `if (!track)` to its end: the
\* response it produces for the looked-up metadata `track`, the caller `user`,
\* the quality parameter, the Range header and the files on disk `d`.
Answer(st, ab, file, size, s, e, len, body, notify) ==
    [status |-> st, aborted |-> ab, file |-> file, fileSize |-> size,
     start |-> s, end |-> e, contentLength |-> len, body |-> body,
     notify |-> notify]

Failure(st) == Answer(st, FALSE, NoPath, 0, NaN, NaN, NaN, EmptyBody, FALSE)

RangeAnswer(file, fileSize, range, user) ==
    LET parts == SplitDash(ReplaceBytes(range))
        start == parseInt(parts[1])
        end   == IF HasEnd(parts) THEN parseInt(parts[2])
                 ELSE DefaultEnd(start, fileSize)
        chunkSize == IF IsNum(start) /\ IsNum(end)
                     THEN Num(Val(end) - Val(start) + 1) ELSE NaN
    IN  IF ReadStreamThrows(start, end)
        THEN Answer(206, TRUE, file, fileSize, start, end, chunkSize, EmptyBody, FALSE)
        ELSE Answer(206, FALSE, file, fileSize, start, end, chunkSize,
                    BodyOf(Val(start), Val(end), fileSize),
                    NotifiesOnRange(start, user))

FullAnswer(file, fileSize, user) ==
    Answer(200, FALSE, file, fileSize, NaN, NaN, Num(fileSize),
           BodyOf(0, fileSize - 1, fileSize), user # NoUser)

Forbidden(track, user) == ~track.isPublic /\ user # track.artistId

Respond(track, user, qualityParam, range, d) ==
    IF track = NoTrack THEN Failure(404)
    ELSE IF Forbidden(track, user) THEN Failure(403)
    ELSE LET relativeFilePath == getQualityFile(track, QualityOf(qualityParam))
         IN  IF ~Truthy(relativeFilePath) THEN Failure(404)
             ELSE IF ~existsSync(d, relativeFilePath) THEN Failure(404)
             ELSE IF range # <<>>
                  THEN RangeAnswer(relativeFilePath, d[relativeFilePath].size, range, user)
                  ELSE FullAnswer(relativeFilePath, d[relativeFilePath].size, user)

---------------------------------------------------------------------------
(* middleware/auth.ts *)

\* An Authorization header: none, a non-Bearer scheme, or a Bearer token that
\* verifies or not and names a user id.
NoAuth == [scheme |-> "none", valid |-> FALSE, userId |-> NoUser]
Bearer(ok, u) == [scheme |-> "bearer", valid |-> ok, userId |-> u]
AuthHeaders ==
    {NoAuth, [scheme |-> "basic", valid |-> FALSE, userId |-> NoUser]}
    \cup {Bearer(ok, u) : ok \in BOOLEAN, u \in Users \cup {"ghost"}}

\* A variant that decodes the token without verifying it.
optionalAuthUnverified(h) ==
    IF h.scheme # "bearer" THEN NoUser
    ELSE IF h.userId \in Users THEN h.userId
    ELSE NoUser

\* optionalAuth: req.user, or NoUser when it leaves req.user unset.
optionalAuth(h) ==
    IF h.scheme # "bearer" THEN NoUser
    ELSE IF ~h.valid THEN NoUser
    ELSE IF h.userId \in Users THEN h.userId
    ELSE NoUser

---------------------------------------------------------------------------
(* trackPlay (routes/stream.ts): the play debouncer *)

Key(trackId, userId) == <<trackId, userId>>

\* new Map()
EmptyMap == [k \in {} |-> 0]

\* const lastPlay = playDebounce.get(key) || 0
LastPlay(pd, key) == IF key \in DOMAIN pd THEN pd[key] ELSE 0

\* The guard `if (now - lastPlay < 30000) return;`: TRUE when the call returns.
Debounced(t, lastPlay) == t - lastPlay < DebounceMs

\* A variant in which the write is not in the map when the next call reads it.
MapSetDeferred(pd, key, t) == pd

\* playDebounce.set(key, now)
MapSet(pd, key, t) == [k \in DOMAIN pd \cup {key} |-> IF k = key THEN t ELSE pd[k]]

\* A variant that drops the entries older than ten seconds.
PruneYoung(pd, t) ==
    IF Cardinality(DOMAIN pd) > PruneSize
    THEN [k \in {x \in DOMAIN pd : ~(pd[x] < t - 10000)} |-> pd[k]]
    ELSE pd

\* if (playDebounce.size > 10000) drop every entry with v < now - 60000
Prune(pd, t) ==
    IF Cardinality(DOMAIN pd) > PruneSize
    THEN [k \in {x \in DOMAIN pd : ~(pd[x] < t - PruneAgeMs)} |-> pd[k]]
    ELSE pd

\* A variant in which a suppressed call restarts the window.
DebounceAfterSliding(pd, key, t) == Prune(MapSet(pd, key, t), t)

\* A variant that tests the size of the map before it adds the entry.
DebounceAfterPruneFirst(pd, key, t) ==
    IF Debounced(t, LastPlay(pd, key)) THEN pd ELSE MapSet(Prune(pd, t), key, t)

\* The map after the synchronous part of trackPlay(trackId, userId) at time t.
DebounceAfter(pd, key, t) ==
    IF Debounced(t, LastPlay(pd, key)) THEN pd ELSE Prune(MapSet(pd, key, t), t)

Task(trackId, userId, pc) == [trackId |-> trackId, userId |-> userId, pc |-> pc]

\* What one trackPlay call decided: whether it was made, the timestamp the
\* map held for the pair (NaN when none), the time of the call, whether it
\* passed the debounce check.
NoCall == [called |-> FALSE, key |-> Key(0, NoUser), prev |-> NaN, at |-> 0,
           counted |-> FALSE]
CallInfo(pd, key, t) ==
    [called |-> TRUE, key |-> key,
     prev |-> IF key \in DOMAIN pd THEN Num(pd[key]) ELSE NaN,
     at |-> t, counted |-> ~Debounced(t, LastPlay(pd, key))]

\* The map of a debouncer without the clean-up, after a call.
DebounceNoPrune(pd, key, t) ==
    IF Debounced(t, LastPlay(pd, key)) THEN pd ELSE MapSet(pd, key, t)

\* trackPlay up to its first await: check, set, prune, then cache.incr is issued.
TrackPlayCall(trackId, userId) ==
    LET key == Key(trackId, userId)
    IN  /\ playDebounce' = DebounceAfter(playDebounce, key, now)
        /\ neverPruned' = DebounceNoPrune(neverPruned, key, now)
        /\ playTasks' = IF Debounced(now, LastPlay(playDebounce, key))
                        THEN playTasks
                        ELSE playTasks (+) SetToBag({Task(trackId, userId, "incr")})

\* await cache.incr(`plays:${trackId}`) returns; cache.incr swallows a Redis
\* error (ok = FALSE) and the call goes on to prisma.playHistory.create.
PlayIncr(task, ok) ==
    /\ BagIn(task, playTasks) /\ task.pc = "incr"
    /\ plays' = IF ok THEN [plays EXCEPT ![task.trackId] = @ + 1] ELSE plays
    /\ playTasks' = (playTasks (-) SetToBag({task}))
                    (+) SetToBag({Task(task.trackId, task.userId, "create")})
    /\ resp' = NoResp
    /\ UNCHANGED <<now, playCount, trendingCache, player, db, cache, cacheAt, disk, playHistory, playDebounce, neverPruned, ingest, req>>

\* The row's playedAt defaults to the time of creation: rows are kept in
\* creation order, which is their playedAt order.
HistoryRow(task) ==
    [userId |-> task.userId, trackId |-> task.trackId, duration |-> 0,
     completed |-> FALSE]

\* A variant in which the handler awaits trackPlay inside its try: a failed
\* create reaches next(error) after the headers were sent, and the response
\* being piped for that listener and track is cut off.
PlayCreateAwaited(task, ok) ==
    /\ BagIn(task, playTasks) /\ task.pc = "create"
    /\ playHistory' = IF ok THEN Append(playHistory, HistoryRow(task))
                      ELSE playHistory
    /\ playTasks' = playTasks (-) SetToBag({task})
    /\ resp' = NoResp
    /\ req' = [r \in DOMAIN req |->
                 IF /\ ~ok /\ req[r].pc = "pipe" /\ req[r].trackId = task.trackId
                    /\ req[r].user = task.userId
                 THEN [req[r] EXCEPT !.pc = "idle"]
                 ELSE req[r]]
    /\ UNCHANGED <<now, playCount, trendingCache, player, db, cache, cacheAt, disk, plays, playDebounce, neverPruned, ingest>>

\* await prisma.playHistory.create(...) returns; on a database error
\* (ok = FALSE) trackPlay rejects and the caller's .catch logs it.
PlayCreate(task, ok) ==
    /\ BagIn(task, playTasks) /\ task.pc = "create"
    /\ playHistory' = IF ok THEN Append(playHistory, HistoryRow(task))
                      ELSE playHistory
    /\ playTasks' = playTasks (-) SetToBag({task})
    /\ resp' = NoResp
    /\ UNCHANGED <<now, playCount, trendingCache, player, db, cache, cacheAt, disk, plays, playDebounce, neverPruned, ingest, req>>

PendingTasks == BagToSet(playTasks)

\* A direct call of trackPlay(trackId, userId), as the stream route makes it.
RecordPlay(trackId, userId) ==
    /\ TrackPlayCall(trackId, userId)
    /\ resp' = [kind |-> "play",
                play |-> CallInfo(playDebounce, Key(trackId, userId), now)]
    /\ UNCHANGED <<now, playCount, trendingCache, player, db, cache, cacheAt, disk, plays, playHistory, ingest, req>>

\* Time passes, to the instant t.
Tick(t) ==
    /\ t > now
    /\ now' = t
    /\ resp' = NoResp
    /\ UNCHANGED <<playCount, trendingCache, player>>
    /\ UNCHANGED <<db, cache, cacheAt, disk, plays, playHistory, playDebounce, neverPruned, playTasks,
                   ingest, req>>

---------------------------------------------------------------------------
(* GET /stream/:trackId (routes/stream.ts) *)

Slots == {1, 2}
\* No response has been started.
NoOut == Answer(0, FALSE, NoPath, 0, NaN, NaN, NaN, EmptyBody, FALSE)

Idle == [pc |-> "idle", trackId |-> 0, auth |-> NoAuth, user |-> NoUser,
         track |-> NoTrack, readAt |-> 0, row |-> 0, duration |-> NaN,
         tracks |-> <<>>, range |-> <<>>, out |-> NoOut]

\* No redis entry trending:tracks.  An entry may hold the empty list, which
\* `if (cached)` takes for a hit.
NoList == [tracks |-> <<>>, expires |-> 0]

\* No entry: nothing to expire.
NoStamp == [expires |-> 0, read |-> 0]

\* redis.setex(key, ttl, ...) executed at the instant `at` (milliseconds; ttl
\* in seconds) for a value that was read from the store at `read`.
Stamp(at, read) == [expires |-> at + CacheTtl * 1000, read |-> read]

\* The redis entry of a track and its stamp.
Entry(trackId) ==
    IF trackId \in TrackIds THEN <<cache[trackId], cacheAt[trackId]>>
    ELSE <<NoTrack, NoStamp>>

DbFind(trackId) == IF trackId \in TrackIds THEN db[trackId] ELSE NoTrack

\* A variant for entries stored without a time to live.
CacheFindForever(trackId) ==
    IF trackId \in TrackIds THEN cache[trackId] ELSE NoTrack

\* redis.get: the entry, unless there is none or its time to live has run out.
CacheFind(trackId) ==
    IF trackId \in TrackIds /\ now < cacheAt[trackId].expires
    THEN cache[trackId] ELSE NoTrack

\* The request arrives: optionalAuth runs, then the handler issues cache.get.
StreamStart(r, trackId, authHeader) ==
    /\ req[r].pc = "idle"
    /\ req' = [req EXCEPT ![r] = [Idle EXCEPT !.pc = "cacheGet",
                                               !.trackId = trackId,
                                               !.auth = authHeader,
                                               !.user = optionalAuth(authHeader)]]
    /\ resp' = NoResp
    /\ UNCHANGED <<now, playCount, trendingCache, player, db, cache, cacheAt, disk, plays, playHistory, playDebounce, neverPruned,
                   playTasks, ingest>>

\* The headers are written and the read stream is piped to the response:
\* the body is still to flow when the handler returns.
Piped(out) == out.status \in {200, 206} /\ ~out.aborted

\* From `if (!track) throw notFound` to the end of the handler, with the
\* looked-up metadata `track`: no await in between.  An error is answered
\* at once; otherwise writeHead and stream.pipe(res) start the response, and
\* then trackPlay(...).catch(console.error) is called and not awaited.
\* `written`: the request has put the metadata in the cache.
Finish(r, track, qualityParam, range, written) ==
    LET key == Key(req[r].trackId, req[r].user)
        readAt == CASE req[r].pc = "cacheGet" -> cacheAt[req[r].trackId].read
                    [] req[r].pc = "findUnique" -> now
                    [] OTHER -> req[r].readAt
        out == Respond(track, req[r].user, qualityParam, range, disk)
    IN  /\ resp' = [kind |-> "stream", trackId |-> req[r].trackId,
                    auth |-> req[r].auth, user |-> req[r].user, track |-> track,
                    quality |-> qualityParam, range |-> range, out |-> out,
                    lookup |-> [hit |-> req[r].pc = "cacheGet", readAt |-> readAt,
                                at |-> now, before |-> Entry(req[r].trackId),
                                written |-> written],
                    play |-> IF out.notify THEN CallInfo(playDebounce, key, now)
                             ELSE NoCall]
        /\ req' = [req EXCEPT ![r] =
                     IF Piped(out)
                     THEN [Idle EXCEPT !.pc = "pipe", !.trackId = req[r].trackId,
                                       !.auth = req[r].auth, !.user = req[r].user,
                                       !.track = track, !.range = range, !.out = out]
                     ELSE Idle]
        /\ IF out.notify
           THEN TrackPlayCall(req[r].trackId, req[r].user)
           ELSE UNCHANGED <<playDebounce, neverPruned, playTasks>>

\* The read stream has ended and with it the response: the body that was
\* announced has been sent.
StreamEnd(r) ==
    /\ req[r].pc = "pipe"
    /\ resp' = [kind |-> "sent", trackId |-> req[r].trackId, user |-> req[r].user,
                track |-> req[r].track, range |-> req[r].range, out |-> req[r].out]
    /\ req' = [req EXCEPT ![r] = Idle]
    /\ UNCHANGED <<now, playCount, trendingCache, player, db, cache, cacheAt, disk, plays,
                   playHistory, playDebounce, neverPruned, playTasks, ingest>>

\* await cache.get returns an entry: the handler runs to its end.
CacheHit(r, qualityParam, range) ==
    /\ req[r].pc = "cacheGet"
    /\ CacheFind(req[r].trackId) # NoTrack
    /\ Finish(r, CacheFind(req[r].trackId), qualityParam, range, FALSE)
    /\ UNCHANGED <<now, playCount, trendingCache, player, db, cache, cacheAt, disk, plays, playHistory, ingest>>

\* await cache.get returns null (no entry, or a Redis error that cache.get
\* swallows): prisma.track.findUnique is issued.
CacheMiss(r) ==
    /\ req[r].pc = "cacheGet"
    /\ req' = [req EXCEPT ![r].pc = "findUnique"]
    /\ resp' = NoResp
    /\ UNCHANGED <<now, playCount, trendingCache, player, db, cache, cacheAt, disk, plays, playHistory, playDebounce, neverPruned,
                   playTasks, ingest>>

\* findUnique returns a track: cache.set is issued.
FindUniqueFound(r) ==
    /\ req[r].pc = "findUnique"
    /\ DbFind(req[r].trackId) # NoTrack
    /\ req' = [req EXCEPT ![r].pc = "cacheSet", ![r].track = DbFind(req[r].trackId),
                           ![r].readAt = now]
    /\ resp' = NoResp
    /\ UNCHANGED <<now, playCount, trendingCache, player, db, cache, cacheAt, disk, plays, playHistory, playDebounce, neverPruned,
                   playTasks, ingest>>

\* findUnique returns null: the handler answers 404.
FindUniqueNull(r, qualityParam, range) ==
    /\ req[r].pc = "findUnique"
    /\ DbFind(req[r].trackId) = NoTrack
    /\ Finish(r, NoTrack, qualityParam, range, FALSE)
    /\ UNCHANGED <<now, playCount, trendingCache, player, db, cache, cacheAt, disk, plays, playHistory, ingest>>

\* await cache.set returns (ok = FALSE: Redis failed and cache.set swallowed
\* it), and the handler runs to its end.
CacheSet(r, ok, qualityParam, range) ==
    /\ req[r].pc = "cacheSet"
    /\ cache' = IF ok THEN [cache EXCEPT ![req[r].trackId] = req[r].track] ELSE cache
    /\ cacheAt' = IF ok THEN [cacheAt EXCEPT ![req[r].trackId] =
                                Stamp(now, req[r].readAt)]
                  ELSE cacheAt
    /\ Finish(r, req[r].track, qualityParam, range, ok)
    /\ UNCHANGED <<now, playCount, trendingCache, player, db, disk, plays, playHistory, ingest>>


---------------------------------------------------------------------------
(* POST /stream/:trackId/complete (routes/stream.ts) *)

\* The rows prisma.playHistory.findFirst selects from: the caller's open rows
\* of the track.  Rows are numbered in playedAt order.
OpenRows(h, userId, trackId) ==
    {i \in 1 .. Len(h) :
        h[i].userId = userId /\ h[i].trackId = trackId /\ ~h[i].completed}

\* findFirst({ where: { userId, trackId, completed: false },
\*             orderBy: { playedAt: 'desc' } }): the row's id, 0 for null.
findFirst(h, userId, trackId) ==
    IF OpenRows(h, userId, trackId) = {} THEN 0
    ELSE CHOOSE i \in OpenRows(h, userId, trackId) :
            \A j \in OpenRows(h, userId, trackId) : j <= i

\* duration || 0, for the `duration` of the request body (NaN when absent)
DurationOr0(d) == IF IsNum(d) THEN Val(d) ELSE 0

\* res.json({ success: true }), or the answer of the error handler after
\* next(error) (status 500); `row` is the row that was updated, 0 for none.
CompleteAnswer(status, user, trackId, duration, row) ==
    [kind |-> "complete", status |-> status, user |-> user, trackId |-> trackId,
     duration |-> duration, row |-> row]

CompleteFrame == <<now, playCount, trendingCache, player, db, cache, cacheAt, disk, plays, playDebounce, neverPruned, playTasks, ingest>>

\* The request arrives and optionalAuth has run.  Without a user the handler
\* answers at once; otherwise it issues findFirst.
CompleteStart(r, trackId, authHeader, duration) ==
    LET user == optionalAuth(authHeader)
    IN  /\ req[r].pc = "idle"
        /\ IF user = NoUser
           THEN /\ resp' = CompleteAnswer(200, user, trackId, duration, 0)
                /\ UNCHANGED req
           ELSE /\ resp' = NoResp
                /\ req' = [req EXCEPT ![r] = [Idle EXCEPT !.pc = "findFirst",
                                                         !.trackId = trackId,
                                                         !.auth = authHeader,
                                                         !.user = user,
                                                         !.duration = duration]]
        /\ UNCHANGED playHistory
        /\ UNCHANGED CompleteFrame

\* await findFirst returns: null ends the handler, a row leads to the
\* update; when the store rejects (ok = FALSE) the catch calls next(error).
CompleteFind(r, ok) ==
    LET row == findFirst(playHistory, req[r].user, req[r].trackId)
    IN  /\ req[r].pc = "findFirst"
        /\ IF ~ok
           THEN /\ resp' = CompleteAnswer(500, req[r].user, req[r].trackId, req[r].duration, 0)
                /\ req' = [req EXCEPT ![r] = Idle]
           ELSE IF row = 0
           THEN /\ resp' = CompleteAnswer(200, req[r].user, req[r].trackId, req[r].duration, 0)
                /\ req' = [req EXCEPT ![r] = Idle]
           ELSE /\ resp' = [kind |-> "findFirst", user |-> req[r].user,
                            trackId |-> req[r].trackId, row |-> row]
                /\ req' = [req EXCEPT ![r].pc = "update", ![r].row = row]
        /\ UNCHANGED playHistory
        /\ UNCHANGED CompleteFrame

\* await prisma.playHistory.update({ where: { id: history.id }, ... })
\* returns, and the handler answers; when the store rejects (ok = FALSE) the
\* row is as it was and the catch calls next(error).
CompleteUpdate(r, ok) ==
    /\ req[r].pc = "update"
    /\ playHistory' = IF ok
                      THEN [playHistory EXCEPT ![req[r].row] =
                              [@ EXCEPT !.duration = DurationOr0(req[r].duration),
                                        !.completed = TRUE]]
                      ELSE playHistory
    /\ resp' = CompleteAnswer(IF ok THEN 200 ELSE 500, req[r].user, req[r].trackId,
                              req[r].duration, IF ok THEN req[r].row ELSE 0)
    /\ req' = [req EXCEPT ![r] = Idle]
    /\ UNCHANGED CompleteFrame

---------------------------------------------------------------------------
(* DELETE /tracks/:trackId (routes/tracks.ts) *)

\* authenticate: req.user, or NoUser when it answers 401.
authenticate(h) ==
    IF h.scheme # "bearer" THEN NoUser
    ELSE IF ~h.valid THEN NoUser
    ELSE IF h.userId \in Users THEN h.userId
    ELSE NoUser

DeleteAnswer(status, trackId, user) ==
    [kind |-> "delete", status |-> status, trackId |-> trackId, user |-> user]

DeleteFrame == <<now, playCount, trendingCache, player, disk, plays, playHistory, playDebounce, neverPruned, playTasks, ingest>>

\* The request arrives and authenticate has run: 401 without a user,
\* otherwise prisma.track.findUnique is issued.
DeleteStart(r, trackId, authHeader) ==
    LET user == authenticate(authHeader)
    IN  /\ req[r].pc = "idle"
        /\ IF user = NoUser
           THEN /\ resp' = DeleteAnswer(401, trackId, user)
                /\ UNCHANGED req
           ELSE /\ resp' = NoResp
                /\ req' = [req EXCEPT ![r] = [Idle EXCEPT !.pc = "deleteFind",
                                                         !.trackId = trackId,
                                                         !.auth = authHeader,
                                                         !.user = user]]
        /\ UNCHANGED <<db, cache, cacheAt>>
        /\ UNCHANGED DeleteFrame

\* await findUnique returns: 404 for no track, 403 for another artist's,
\* otherwise prisma.track.delete is issued.
DeleteFind(r) ==
    LET track == DbFind(req[r].trackId)
        status == IF track = NoTrack THEN 404
                  ELSE IF track.artistId # req[r].user THEN 403 ELSE 0
    IN  /\ req[r].pc = "deleteFind"
        /\ IF status # 0
           THEN /\ resp' = DeleteAnswer(status, req[r].trackId, req[r].user)
                /\ req' = [req EXCEPT ![r] = Idle]
           ELSE /\ resp' = NoResp
                /\ req' = [req EXCEPT ![r].pc = "delete"]
        /\ UNCHANGED <<db, cache, cacheAt>>
        /\ UNCHANGED DeleteFrame

\* await prisma.track.delete returns (it throws, and the handler answers
\* 500, when a concurrent delete removed the record first); the handler goes
\* on to clear the cache.  It removes no file.
DeleteRecord(r) ==
    /\ req[r].pc = "delete"
    /\ IF DbFind(req[r].trackId) = NoTrack
       THEN /\ resp' = DeleteAnswer(500, req[r].trackId, req[r].user)
            /\ req' = [req EXCEPT ![r] = Idle]
            /\ UNCHANGED db
       ELSE /\ resp' = NoResp
            /\ req' = [req EXCEPT ![r].pc = "cacheDel"]
            /\ db' = [db EXCEPT ![req[r].trackId] = NoTrack]
    /\ UNCHANGED <<cache, cacheAt>>
    /\ UNCHANGED DeleteFrame

\* await cache.del(cacheKeys.track(id)) and await cache.del(cacheKeys
\* .trackMeta(id)) return (ok = FALSE: Redis failed and cache.del swallowed
\* it); the stream route reads the second key only.  The handler answers 200.
DeleteCacheDel(r, ok) ==
    /\ req[r].pc = "cacheDel"
    /\ cache' = IF ok THEN [cache EXCEPT ![req[r].trackId] = NoTrack] ELSE cache
    /\ cacheAt' = IF ok THEN [cacheAt EXCEPT ![req[r].trackId] = NoStamp] ELSE cacheAt
    /\ resp' = DeleteAnswer(200, req[r].trackId, req[r].user)
    /\ req' = [req EXCEPT ![r] = Idle]
    /\ UNCHANGED db
    /\ UNCHANGED DeleteFrame

---------------------------------------------------------------------------
(* PATCH /tracks/:trackId (routes/tracks.ts) *)

PatchAnswer(status, trackId, user) ==
    [kind |-> "patch", status |-> status, trackId |-> trackId, user |-> user]

\* The request arrives and authenticate has run: 401 without a user,
\* otherwise prisma.track.findUnique is issued.
PatchStart(r, trackId, authHeader) ==
    LET user == authenticate(authHeader)
    IN  /\ req[r].pc = "idle"
        /\ IF user = NoUser
           THEN /\ resp' = PatchAnswer(401, trackId, user)
                /\ UNCHANGED req
           ELSE /\ resp' = NoResp
                /\ req' = [req EXCEPT ![r] = [Idle EXCEPT !.pc = "patchFind",
                                                         !.trackId = trackId,
                                                         !.auth = authHeader,
                                                         !.user = user]]
        /\ UNCHANGED <<db, cache, cacheAt>>
        /\ UNCHANGED DeleteFrame

\* await findUnique returns: 404 for no track, 403 for another artist's,
\* otherwise the body is parsed and prisma.track.update is issued.
PatchFind(r) ==
    LET track == DbFind(req[r].trackId)
        status == IF track = NoTrack THEN 404
                  ELSE IF track.artistId # req[r].user THEN 403 ELSE 0
    IN  /\ req[r].pc = "patchFind"
        /\ IF status # 0
           THEN /\ resp' = PatchAnswer(status, req[r].trackId, req[r].user)
                /\ req' = [req EXCEPT ![r] = Idle]
           ELSE /\ resp' = NoResp
                /\ req' = [req EXCEPT ![r].pc = "patchUpdate"]
        /\ UNCHANGED <<db, cache, cacheAt>>
        /\ UNCHANGED DeleteFrame

\* await prisma.track.update({data}) returns for a body {isPublic} (it
\* throws, and the handler answers 500, when a concurrent delete removed the
\* record first); the handler goes on to clear the cache.
PatchUpdate(r, isPublic) ==
    /\ req[r].pc = "patchUpdate"
    /\ IF DbFind(req[r].trackId) = NoTrack
       THEN /\ resp' = PatchAnswer(500, req[r].trackId, req[r].user)
            /\ req' = [req EXCEPT ![r] = Idle]
            /\ UNCHANGED db
       ELSE /\ resp' = NoResp
            /\ req' = [req EXCEPT ![r].pc = "patchCacheDel"]
            /\ db' = [db EXCEPT ![req[r].trackId].isPublic = isPublic]
    /\ UNCHANGED <<cache, cacheAt>>
    /\ UNCHANGED DeleteFrame

\* await cache.del(cacheKeys.track(id)) and await cache.del(cacheKeys
\* .trackMeta(id)) return (ok = FALSE: Redis failed and cache.del swallowed
\* it), and the handler answers 200 with the updated track.
PatchCacheDel(r, ok) ==
    /\ req[r].pc = "patchCacheDel"
    /\ cache' = IF ok THEN [cache EXCEPT ![req[r].trackId] = NoTrack] ELSE cache
    /\ cacheAt' = IF ok THEN [cacheAt EXCEPT ![req[r].trackId] = NoStamp] ELSE cacheAt
    /\ resp' = PatchAnswer(200, req[r].trackId, req[r].user)
    /\ req' = [req EXCEPT ![r] = Idle]
    /\ UNCHANGED db
    /\ UNCHANGED DeleteFrame

---------------------------------------------------------------------------
(* POST /upload/track (routes/upload.ts, in its two versions) *)

\* "v1": the handler behind the multer middleware, which lets a metadata
\*       failure fail the upload and starts the transcode before the slug check.
\* "v2": the handler that tolerates a metadata failure and awaits each step,
\* taking a base64 body; "v2form": the same handler taking a multipart body.
Routes == {"v1", "v2", "v2form"}

\* The samples ffmpeg decodes from the uploaded file.  A sample is a float32
\* read by chunk.readFloatLE and is held as a multiple of 1/1024: the value s
\* stands for the sample s / 1024, which a float32 holds exactly.
UploadSamples == <<30, -100, 5>>

\* What ffmpeg decodes, as len samples that repeat a period: sample k (from 1)
\* is period[((k - 1) % Len(period)) + 1].  A sequence is its own period.
Signal(samples) == [len |-> Len(samples), period |-> samples]
Tone(len, sample) == [len |-> len, period |-> <<sample>>]
SampleAt(decoded, k) == decoded.period[((k - 1) % Len(decoded.period)) + 1]

IdleRun == [pc |-> "idle", route |-> "none", titleOk |-> TRUE, tier |-> 0,
            slug |-> FALSE,
            low |-> NoPath, medium |-> NoPath, high |-> NoPath,
            probeOk |-> FALSE, waveOk |-> FALSE, durationInput |-> NaN,
            duration |-> 0, bitrate |-> NaN, sampleRate |-> NaN,
            decoded |-> Signal(UploadSamples), waveformData |-> <<>>]

\* generateWaveform(filePath): the samples ffmpeg decoded (in 1/1024ths) and
\* the event that ended the decoding: 'end', 'error', or "split" for a 'data'
\* chunk that ends inside a 4-byte sample, on which chunk.readFloatLE throws
\* out of the listener.  The points it returns are in hundredths.

\* A listener of generateWaveform threw: nothing catches the exception.
Thrown == <<-1>>

\* A variant that keeps the sign of the sample.
AbsSigned(x) == x

\* Math.abs(sample)
Abs(x) == IF x < 0 THEN -x ELSE x

\* Math.round(max * 100) / 100 for max = x / 1024, in hundredths.  The product
\* x / 1024 * 100 is exact in a double, and Math.round takes it to
\* floor(x * 100 / 1024 + 1/2), a half rounding up.
Round2(x) == (200 * x + 1024) \div 2048

\* Math.ceil(a / b) for a >= 0, b > 0
Ceil(a, b) == (a + b - 1) \div b

RECURSIVE MaxOf(_)
MaxOf(slice) ==
    IF Len(slice) = 1 THEN slice[1]
    ELSE LET m == MaxOf(Tail(slice)) IN IF slice[1] >= m THEN slice[1] ELSE m

\* for (let i = 0; i < samples.length; i += step) waveform.push(max of slice):
\* the loop runs once for every index below samples.length that is a multiple
\* of step, in increasing order, on samples.slice(i, i + step).
Downsample(samples, step) ==
    LET starts == {i \in 0 .. Len(samples) - 1 : i % step = 0}
    IN  [j \in 1 .. Cardinality(starts) |->
            Round2(MaxOf(SubSeq(samples, (j - 1) * step + 1,
                                Min(j * step, Len(samples)))))]

\* Math.max(...slice) passes the slice as call arguments and throws a
\* RangeError (Maximum call stack size exceeded) when they do not fit on the
\* stack.  Where the limit lies depends on the engine and on the stack in use
\* at the call: up to 120,000 arguments fit, 130,000 and more never do (node
\* 20, default stack size), and in between `fits` tells.
SpreadThrows(n, fits) == n > 120000 /\ (n >= 130000 \/ ~fits)

\* The 'end' listener throws at its first slice, which has step samples, or
\* resolves with the points; the 'error' listener resolves with [].
generateWaveform(decoded, event, fits) ==
    LET step == Ceil(decoded.len, targetPoints)
    IN  IF event = "split" THEN Thrown
        ELSE IF event = "error" THEN <<>>
        ELSE IF SpreadThrows(step, fits) THEN Thrown
        ELSE Downsample([k \in 1 .. decoded.len |-> Abs(SampleAt(decoded, k))],
                        step)

\* What mm.parseFile reports for the uploads explored.
FileMeta == [duration |-> 5, bitrate |-> 128, sampleRate |-> 44100]

\* durationInput || x
OrNumber(d, x) == IF IsNum(d) /\ Val(d) # 0 THEN Val(d) ELSE x

\* The metadata the handler keeps after mm.parseFile returned (ok) or threw:
\* v1 takes the file's, v2 prefers the caller's duration and survives a throw.
Probed(run, ok, durationInput) ==
    IF run.route = "v1"
    THEN [run EXCEPT !.probeOk = ok, !.duration = FileMeta.duration,
                     !.bitrate = Num(FileMeta.bitrate),
                     !.sampleRate = Num(FileMeta.sampleRate)]
    ELSE [run EXCEPT !.probeOk = ok, !.durationInput = durationInput,
                     !.duration = OrNumber(durationInput,
                                           IF ok THEN FileMeta.duration ELSE 0),
                     !.bitrate = IF ok THEN Num(FileMeta.bitrate) ELSE NaN,
                     !.sampleRate = IF ok THEN Num(FileMeta.sampleRate) ELSE NaN]

\* res.status(...).json(...) of the upload route, with the track it created.
NoUpload == [duration |-> 0, bitrate |-> NaN, sampleRate |-> NaN,
             waveformData |-> <<>>, fileUrl |-> NoPath, fileUrlLow |-> NoPath,
             fileUrlMedium |-> NoPath, fileUrlHigh |-> NoPath]
UploadAnswer(status, i, run, track) ==
    [kind |-> "upload", status |-> status, run |-> i, route |-> run.route,
     probeOk |-> run.probeOk, waveOk |-> run.waveOk,
     durationInput |-> run.durationInput, track |-> track]

\* The handler has answered (201, 400 or 500) and its locals are gone.
Returned(pc) == [IdleRun EXCEPT !.pc = pc]

\* A variant that names the output after the tier alone, so that every upload
\* writes the same three files.
outputPathShared(i, k) == Path(1, k)

\* The file transcodeAudio writes for a tier: `${baseName}_${quality}.mp3`,
\* where baseName is the uuid under which this upload's original was saved.
outputPath(i, k) == Path(i, k)

\* The size of the rendition ffmpeg writes for a tier.
RenditionSize(k) == CASE k = "low" -> 2 [] k = "medium" -> 3 [] k = "high" -> 4

IngestFrame == <<now, playCount, trendingCache, player, db, cache, cacheAt, plays, playHistory, playDebounce, neverPruned, playTasks, req>>

\* The handler's catch unlinks the upload: req.file.path in v1, tempFilePath
\* in v2, which only the base64 branch sets.
Unlinks(route) == route \in {"v1", "v2"}

\* The request arrives, with or without an audio part and a title.  Without
\* audio every handler answers 400 and no file is written.  The base64 branch
\* of v2 has the whole body and validates the title too before it decodes and
\* writes; otherwise the original starts being written under a new uuid (by
\* multer for a multipart body, by fs.writeFile for a base64 one).
UploadBegin(i, route, audio, titleOk) ==
    LET rejects == ~audio \/ (route = "v2" /\ ~titleOk)
    IN  /\ ingest[i].pc = "idle"
        /\ ingest' = [ingest EXCEPT ![i] =
                        IF rejects THEN Returned("rejected")
                        ELSE [@ EXCEPT !.pc = "upload", !.route = route,
                                       !.titleOk = titleOk]]
        /\ disk' = IF rejects THEN disk
                   ELSE [disk EXCEPT ![Path(i, "orig")] = File("writing", 0)]
        /\ resp' = IF rejects
                   THEN UploadAnswer(400, i, [IdleRun EXCEPT !.route = route],
                                     NoUpload)
                   ELSE NoResp
        /\ UNCHANGED IngestFrame

\* The catch of the handler is entered with a file to clean up: it calls
\* fs.unlink and awaits it, and the handler has yet to answer.
Caught(run) == [run EXCEPT !.pc = "unlink"]

\* The original is on disk (n bytes).  After a multipart upload the handler
\* now validates the title: when it is missing, v1 throws into its catch,
\* which starts fs.unlink(req.file.path) and awaits it, and the multipart
\* branch of v2, which never sets tempFilePath, answers 400 and leaves the
\* file.
Uploaded(i, n) ==
    LET run == ingest[i]
    IN  /\ run.pc = "upload"
        /\ ingest' = [ingest EXCEPT ![i] =
                        IF run.titleOk THEN [@ EXCEPT !.pc = "probe"]
                        ELSE IF Unlinks(run.route) THEN Caught(@)
                        ELSE Returned("rejected")]
        /\ disk' = [disk EXCEPT ![Path(i, "orig")] = File("complete", n)]
        /\ resp' = IF run.titleOk \/ Unlinks(run.route) THEN NoResp
                   ELSE UploadAnswer(400, i, run, NoUpload)
        /\ UNCHANGED IngestFrame

\* The fs.unlink of the catch takes effect: the upload is gone from the disk,
\* while the handler still waits for the promise.
UnlinkUpload(i) ==
    /\ ingest[i].pc = "unlink"
    /\ ingest' = [ingest EXCEPT ![i].pc = "unlinked"]
    /\ disk' = [disk EXCEPT ![Path(i, "orig")] = NoFile]
    /\ resp' = NoResp
    /\ UNCHANGED IngestFrame

\* `await fs.unlink(...).catch(() => {})` returns and next(error) passes the
\* error on: a missing title is answered 400, any other error 500.
NextError(i) ==
    /\ ingest[i].pc = "unlinked"
    /\ ingest' = [ingest EXCEPT ![i] =
                    Returned(IF ingest[i].titleOk THEN "failed" ELSE "rejected")]
    /\ resp' = UploadAnswer(IF ingest[i].titleOk THEN 500 ELSE 400, i, ingest[i],
                            NoUpload)
    /\ UNCHANGED disk
    /\ UNCHANGED IngestFrame

\* await mm.parseFile returns or throws.  v1 has no try around it: the throw
\* reaches the handler's catch.
Probe(i, ok, durationInput) ==
    /\ ingest[i].pc = "probe"
    /\ ingest' = [ingest EXCEPT ![i] =
                    IF ok \/ ingest[i].route # "v1"
                    THEN [Probed(@, ok, durationInput) EXCEPT !.pc = "waveform"]
                    ELSE Caught(@)]
    /\ resp' = NoResp
    /\ UNCHANGED disk
    /\ UNCHANGED IngestFrame

DecodeEvents == {"end", "error", "split"}

\* An upload whose handler has yet to answer.
InFlight(run) ==
    run.pc \in {"upload", "unlink", "unlinked", "probe", "waveform", "transcode"}

\* An exception that nothing catches ends the process (no listener has a
\* try and no handler of uncaughtException is installed), with everything
\* it holds in memory: the uploads in flight (that of the exception is i)
\* and the requests in flight get no answer, the debounce map and the
\* notifications under way are gone, and a file that was being written is
\* left as far as it got.  The store, redis and the complete files remain,
\* and the process manager starts the server again.
Exit(i) ==
    /\ ingest' = [j \in Runs |-> IF InFlight(ingest[j]) THEN Returned("exited")
                                 ELSE ingest[j]]
    /\ req' = [r \in Slots |-> Idle]
    /\ playDebounce' = EmptyMap
    /\ neverPruned' = EmptyMap
    /\ playTasks' = EmptyBag
    /\ disk' = [p \in DOMAIN disk |->
                  IF disk[p].state = "writing" THEN File("partial", disk[p].size)
                  ELSE disk[p]]
    /\ resp' = [kind |-> "exit", run |-> i]
    /\ UNCHANGED <<now, playCount, trendingCache, player, db, cache, cacheAt, plays,
                   playHistory>>

\* await generateWaveform returns (it resolves on error too), and then
\* transcodeAudio is called and starts ffmpeg for the first tier; or a
\* listener of generateWaveform throws and the process ends.
Waveform(i, event, fits) ==
    LET waveformData == generateWaveform(ingest[i].decoded, event, fits)
    IN  /\ ingest[i].pc = "waveform"
        /\ IF waveformData = Thrown THEN Exit(i)
           ELSE /\ ingest' = [ingest EXCEPT ![i] =
                                [@ EXCEPT !.pc = "transcode", !.tier = 1,
                                          !.waveOk = (event = "end"),
                                          !.waveformData = waveformData]]
                /\ disk' = [disk EXCEPT ![outputPath(i, Tiers[1])] =
                                          File("writing", 0)]
                /\ resp' = NoResp
                /\ UNCHANGED IngestFrame

\* A variant in which a failed tier rejects, ending transcodeAudio at once.
AfterTierAbort(run, out, ok) ==
    IF ok THEN [run EXCEPT ![out.kind] = out, !.tier = @ + 1]
    ELSE [run EXCEPT !.tier = Len(Tiers) + 1]

\* transcodeAudio after ffmpeg ended the tier written to `out`: on 'end' the
\* result is recorded, on 'error' it is not; either way the promise resolves
\* and the loop goes on to the next tier.
AfterTier(run, out, ok) ==
    IF ok THEN [run EXCEPT ![out.kind] = out, !.tier = @ + 1]
    ELSE [run EXCEPT !.tier = @ + 1]

\* ffmpeg ends the tier being encoded, with 'end' (ok) or 'error'; a failed
\* run leaves what it wrote so far.  The loop starts ffmpeg for the next tier.
TierEnd(i, ok) ==
    LET k == ingest[i].tier
        run == AfterTier(ingest[i], outputPath(i, Tiers[k]), ok)
        d1 == [disk EXCEPT ![outputPath(i, Tiers[k])] =
                 IF ok THEN File("complete", RenditionSize(Tiers[k]))
                 ELSE File("partial", 1)]
    IN  /\ ingest[i].pc = "transcode"
        /\ k \in 1 .. Len(Tiers)
        /\ ingest' = [ingest EXCEPT ![i] = run]
        /\ disk' = IF run.tier \in 1 .. Len(Tiers)
                   THEN [d1 EXCEPT ![outputPath(i, Tiers[run.tier])] =
                                     File("writing", 0)]
                   ELSE d1
        /\ resp' = NoResp
        /\ UNCHANGED IngestFrame

TranscodeDone(run) == run.pc = "transcode" /\ run.tier > Len(Tiers)

\* await prisma.track.findFirst (the duplicate-slug check) returns.  v1 issues
\* it right after starting the transcode, v2 after the transcode returned.
SlugCheck(i) ==
    /\ ingest[i].pc = "transcode" /\ ~ingest[i].slug
    /\ ingest[i].route = "v1" \/ TranscodeDone(ingest[i])
    /\ ingest' = [ingest EXCEPT ![i].slug = TRUE]
    /\ UNCHANGED disk
    /\ resp' = NoResp
    /\ UNCHANGED IngestFrame

\* A variant that does not wait for the transcode to return.
CanCreateEarly(run) == run.pc = "transcode" /\ run.slug

\* prisma.track.create is reached after `await transcodePromise` (v1) or
\* `await transcodeAudio` (v2), and after the slug check.
CanCreate(run) == TranscodeDone(run) /\ run.slug

\* The catch around prisma.track.create runs when it throws (~ok), and then
\* unlinks the upload.
CleansUp(route, ok) == ~ok /\ Unlinks(route)

\* prisma.track.create stores the record and the handler answers 201; when
\* it throws, nothing is stored and the catch is entered, which answers 500
\* at once when it has no file to clean up.
CreateTrack(i, artist, public, ok) ==
    /\ CanCreate(ingest[i])
    /\ db' = IF ~ok THEN db
             ELSE [db EXCEPT ![i] =
                [id |-> i, fileUrl |-> Path(i, "orig"),
                 fileUrlLow |-> ingest[i].low, fileUrlMedium |-> ingest[i].medium,
                 fileUrlHigh |-> ingest[i].high,
                 isPublic |-> public, artistId |-> artist]]
    /\ ingest' = [ingest EXCEPT ![i] =
                    IF ok THEN Returned("done")
                    ELSE IF CleansUp(@.route, ok) THEN Caught(@)
                    ELSE Returned("failed")]
    /\ UNCHANGED disk
    /\ resp' = IF CleansUp(ingest[i].route, ok) THEN NoResp
               ELSE IF ~ok THEN UploadAnswer(500, i, ingest[i], NoUpload)
               ELSE UploadAnswer(201, i, ingest[i],
                      [duration |-> ingest[i].duration,
                       bitrate |-> ingest[i].bitrate,
                       sampleRate |-> ingest[i].sampleRate,
                       waveformData |-> ingest[i].waveformData,
                       fileUrl |-> Path(i, "orig"),
                       fileUrlLow |-> ingest[i].low,
                       fileUrlMedium |-> ingest[i].medium,
                       fileUrlHigh |-> ingest[i].high])
    /\ UNCHANGED <<now, playCount, trendingCache, player, cache, cacheAt, plays, playHistory, playDebounce, neverPruned, playTasks, req>>

\* app.post('/api/upload/track') of the serverless entry point (api/index.ts),
\* which works on the same store.  An invalid body (no audio, no title, an
\* unsupported type, too large) is answered 400.  Otherwise the audio is kept
\* as a data URL in audioUrl and prisma.track.create stores a record under a
\* new id t that names no file (no fileUrl, no rendition); nothing is probed,
\* transcoded or written to disk, and the duration is `duration || 0`.  A
\* throw of create is answered 500.
ServerlessUpload(t, artist, public, valid, duration, ok) ==
    LET run == [IdleRun EXCEPT !.route = "serverless", !.durationInput = duration]
        track == [NoUpload EXCEPT !.duration = OrNumber(duration, 0)]
    IN  /\ db[t] = NoTrack
        /\ db' = IF valid /\ ok
                 THEN [db EXCEPT ![t] = [NoTrack EXCEPT !.id = t, !.isPublic = public,
                                                       !.artistId = artist]]
                 ELSE db
        /\ resp' = IF ~valid THEN UploadAnswer(400, 0, run, NoUpload)
                   ELSE IF ~ok THEN UploadAnswer(500, 0, run, NoUpload)
                   ELSE UploadAnswer(201, 0, run, track)
        /\ UNCHANGED <<now, playCount, trendingCache, player, cache, cacheAt, disk, plays, playHistory, playDebounce, neverPruned, playTasks, ingest, req>>

---------------------------------------------------------------------------
(* Request inputs explored *)

RECURSIVE Digits(_)
Digits(n) ==
    IF n < 10 THEN <<DigitChars[n + 1]>>
    ELSE Digits(n \div 10) \o <<DigitChars[(n % 10) + 1]>>

\* "bytes=<s>-<e>" and "bytes=<s>-"
Closed(s, e) == <<"bytes=">> \o Digits(s) \o <<"-">> \o Digits(e)
Open(s) == <<"bytes=">> \o Digits(s) \o <<"-">>
NoRange == <<>>

SmallOffsets == 0 .. 3
RangeHeaders ==
    {Closed(s, e) : s \in SmallOffsets, e \in SmallOffsets}
    \cup {Closed(0, 65535), Closed(999, 1001), Closed(1000, 1001)}
    \cup {Open(s) : s \in SmallOffsets \cup {999, 1000, 10485750}}
    \cup {<<"bytes=", "-", "5">>, <<"bytes=", "x">>, <<"bytes=", "2", "-", "x">>,
          <<"bytes=", "1">>,
          <<"bytes=", " ", "1", "-", "2">>, <<"bytes=", "+", "1", "-", " ", "2">>,
          <<"bytes=", "1", " ", "-", "2">>, <<"bytes=", "0", "-", " ">>}

QualityParams == {"", "low", "medium", "high", "lossless", "ultra"}

FileSizes == {0, 1, 3, 65537, 10485760}

\* Instants at which calls are made, around the 30 s debounce window.
Instants == {T0 + d : d \in {0, 29999, 30000, 60001}}

\* The (track, user) pairs that play: two users of one track, one user of two.
PlayPairs == {<<1, "u1">>, <<1, "u2">>, <<2, "u1">>}

---------------------------------------------------------------------------
(* The player store of the client (store/playerStore.ts) *)

\* Seconds a track lasts, the deferred seeks that may be pending at once, and
\* the callbacks of its Howl that pause, resume and togglePlay may leave
\* pending at once.
TrackLen == 4
MaxTimers == 1
MaxCallbacks == 1

\* A Howl: the track and quality of its url, the position howl.seek() reads,
\* its sound ("queued": play() was called and the sound has yet to start,
\* "playing", "paused", "ended") and `due`, the onplay and onpause callbacks
\* that Howler has yet to call, in the order of the calls that caused them.
NoHowl == [track |-> 0, quality |-> "none", pos |-> 0, state |-> "none", due |-> <<>>]

\* The store as create() builds it (currentTrack 0: null).  Beside the
\* fields of the store: `stopped`, an onstop callback of an unloaded Howl
\* that Howler has yet to call; `timers`, the setTimeout callbacks of
\* setQuality that have yet to run, each with the currentTime it holds and,
\* for reference, the track it was set for; and `loop`, the Howl whose
\* updateProgress is the last to run in an animation frame: "current", the
\* Howl of the store, "old", a Howl that play() unloaded, or "none".
StoreInit ==
    [currentTrack |-> 0, queue |-> <<>>, queueIndex |-> -1, isPlaying |-> FALSE,
     currentTime |-> 0, quality |-> "medium", repeatMode |-> "off",
     isShuffled |-> FALSE, howl |-> NoHowl, stopped |-> FALSE, timers |-> EmptyBag,
     loop |-> "none"]

ServerFrame == <<now, db, cache, cacheAt, disk, plays, playCount, trendingCache, playHistory,
                 playDebounce, neverPruned, playTasks, ingest, req>>

\* queue.findIndex((t) => t.id === track.id), -1 when there is none.
findIndex(queue, track) ==
    IF \E i \in 1 .. Len(queue) : queue[i] = track
    THEN (CHOOSE i \in 1 .. Len(queue) :
            queue[i] = track /\ \A j \in 1 .. i - 1 : queue[j] # track) - 1
    ELSE -1

\* queue.length > 0 ? queue : [track]
QueueOf(queue, track) == IF Len(queue) > 0 THEN queue ELSE <<track>>

\* seek(time)
Sought(p, time) ==
    IF p.howl = NoHowl THEN p
    ELSE [p EXCEPT !.howl.pos = time, !.currentTime = time]

\* play(track, queue): the old Howl is stopped and unloaded, a Howl of the
\* track is built at the quality of the store, the queue and the index are
\* set and howl.play() is called.  isPlaying is left as it is, and so is the
\* updateProgress of the old Howl.
Played(p, track, queue) ==
    [p EXCEPT !.stopped = (p.howl # NoHowl) \/ p.stopped,
              !.currentTrack = track,
              !.howl = [track |-> track, quality |-> p.quality, pos |-> 0,
                        state |-> "queued", due |-> <<"play">>],
              !.loop = IF p.loop = "none" THEN "none" ELSE "old",
              !.queue = QueueOf(queue, track),
              !.queueIndex = IF findIndex(queue, track) >= 0
                             THEN findIndex(queue, track) ELSE 0]

\* playNext()
PlayedNext(p) ==
    LET nextIndex == IF p.queueIndex + 1 >= Len(p.queue) THEN 0
                     ELSE p.queueIndex + 1
    IN  IF Len(p.queue) = 0 THEN p
        ELSE IF p.queueIndex + 1 >= Len(p.queue) /\ p.repeatMode # "all"
        THEN [p EXCEPT !.isPlaying = FALSE]
        ELSE [Played(p, p.queue[nextIndex + 1], p.queue)
                EXCEPT !.queueIndex = nextIndex]

\* playPrevious(); queue[prevIndex] is undefined for an index past the end.
PlayedPrevious(p) ==
    LET prevIndex == IF p.queueIndex - 1 < 0 THEN Len(p.queue) - 1
                     ELSE p.queueIndex - 1
    IN  IF p.currentTime > 3 THEN Sought(p, 0)
        ELSE IF Len(p.queue) = 0 THEN p
        ELSE IF prevIndex + 1 \in 1 .. Len(p.queue)
        THEN [Played(p, p.queue[prevIndex + 1], p.queue)
                EXCEPT !.queueIndex = prevIndex]
        ELSE p

PlayerStep(p) ==
    /\ player' = p
    /\ resp' = NoResp
    /\ UNCHANGED ServerFrame

play(track, queue) == PlayerStep(Played(player, track, queue))

playNext == PlayerStep(PlayedNext(player))

playPrevious == PlayerStep(PlayedPrevious(player))

\* howl.pause(): the sound is paused where it is and onpause is due.
Paused(p) ==
    IF p.howl = NoHowl THEN p
    ELSE [p EXCEPT !.howl.state = IF @ = "ended" THEN "ended" ELSE "paused",
                   !.howl.due = Append(@, "pause")]

\* howl.play() on the Howl of the store: a paused or ended sound is started
\* again from its position and onplay is due.
Resumed(p) ==
    IF p.howl = NoHowl THEN p
    ELSE [p EXCEPT !.howl.state = IF @ = "playing" THEN "playing" ELSE "queued",
                   !.howl.due = Append(@, "play")]

\* updateProgress in an animation frame: while isPlaying holds it copies
\* howl.seek() of the Howl it belongs to, which is 0 for an unloaded Howl,
\* and asks for the next frame; otherwise it asks for none.
Framed(p) ==
    IF p.loop = "none" THEN p
    ELSE IF p.isPlaying
    THEN [p EXCEPT !.currentTime = IF p.loop = "current" THEN p.howl.pos ELSE 0]
    ELSE [p EXCEPT !.loop = "none"]

\* The onplay and onpause callbacks of the Howl of the store that are due.
CallsDue(p) == IF p.howl = NoHowl THEN 0 ELSE Len(p.howl.due)

pause == PlayerStep(Paused(player))

resume == PlayerStep(Resumed(player))

togglePlay ==
    PlayerStep(IF player.isPlaying THEN Paused(player) ELSE Resumed(player))

seek(time) == PlayerStep(Sought(player, time))

\* onplay of the current Howl, once its sound starts: isPlaying is set and
\* an updateProgress of this Howl is started.
onplay ==
    /\ player.howl.due # <<>> /\ Head(player.howl.due) = "play"
    /\ PlayerStep([player EXCEPT
                     !.howl.due = Tail(@),
                     !.howl.state = IF @ = "queued" THEN "playing" ELSE @,
                     !.isPlaying = TRUE,
                     !.loop = "current"])

\* onpause of the current Howl.
onpause ==
    /\ player.howl.due # <<>> /\ Head(player.howl.due) = "pause"
    /\ PlayerStep([player EXCEPT !.howl.due = Tail(@), !.isPlaying = FALSE])

\* onstop of a Howl that play() stopped and unloaded.
onstop ==
    /\ player.stopped
    /\ PlayerStep([player EXCEPT !.stopped = FALSE, !.isPlaying = FALSE,
                                 !.currentTime = 0])

\* An animation frame in which no time has passed.
updateProgress ==
    /\ player.loop # "none"
    /\ PlayerStep(Framed(player))

\* A second of the track is played and an animation frame runs.
progress ==
    /\ player.howl.state = "playing" /\ player.howl.pos < TrackLen
    /\ PlayerStep(Framed([player EXCEPT !.howl.pos = @ + 1]))

\* onend of the current Howl, whose sound is back at 0: under repeat 'one'
\* howl.seek(0) and howl.play() start it over, otherwise playNext() is called.
onend ==
    /\ player.howl.state = "playing" /\ player.howl.pos = TrackLen
    /\ PlayerStep(IF player.repeatMode = "one"
                  THEN [player EXCEPT !.howl.pos = 0, !.howl.state = "queued",
                                      !.howl.due = Append(@, "play")]
                  ELSE PlayedNext([player EXCEPT !.howl.pos = 0,
                                                 !.howl.state = "ended"]))

addToQueue(track) ==
    PlayerStep(IF findIndex(player.queue, track) >= 0 THEN player
               ELSE [player EXCEPT !.queue = Append(@, track)])

clearQueue ==
    PlayerStep([player EXCEPT
                  !.queue = IF player.currentTrack # 0 THEN <<player.currentTrack>>
                            ELSE <<>>,
                  !.queueIndex = 0])

\* The orders Array.prototype.sort may leave a sequence in under a random
\* comparator: every arrangement of its elements.
Arrangements(seq) ==
    {[i \in 1 .. Len(seq) |-> seq[f[i]]] :
        f \in {g \in [1 .. Len(seq) -> 1 .. Len(seq)] :
                  \A i, j \in 1 .. Len(seq) : i # j => g[i] # g[j]}}

\* toggleShuffle(), `shuffled` being the order the sort leaves.
toggleShuffle(shuffled) ==
    LET otherTracks == SelectSeq(player.queue, LAMBDA t : t # player.currentTrack)
    IN  IF ~player.isShuffled /\ Len(player.queue) > 1
        THEN /\ shuffled \in Arrangements(otherTracks)
             /\ PlayerStep([player EXCEPT
                              !.queue = IF player.currentTrack # 0
                                        THEN <<player.currentTrack>> \o shuffled
                                        ELSE shuffled,
                              !.queueIndex = 0, !.isShuffled = TRUE])
        ELSE /\ shuffled = <<>>
             /\ PlayerStep([player EXCEPT !.isShuffled = FALSE])

setRepeatMode(mode) == PlayerStep([player EXCEPT !.repeatMode = mode])

\* setQuality(quality): while a track plays it is loaded again and a seek
\* to the current time is set to run 500 ms later.
setQuality(quality) ==
    LET p == [player EXCEPT !.quality = quality]
    IN  IF player.currentTrack # 0 /\ player.isPlaying
        THEN PlayerStep([Played(p, player.currentTrack, player.queue) EXCEPT
                           !.timers = @ (+) SetToBag({[time |-> player.currentTime,
                                                       track |-> player.currentTrack]})])
        ELSE PlayerStep(p)

\* The timer of setQuality runs: get().seek(currentTime).
SeekTimer(timer) ==
    /\ BagIn(timer, player.timers)
    /\ PlayerStep(Sought([player EXCEPT !.timers = @ (-) SetToBag({timer})],
                         timer.time))

---------------------------------------------------------------------------
(* Initial states *)

EmptyDb == [t \in TrackIds |-> NoTrack]
EmptyDisk == [p \in Paths |-> NoFile]
NoPlays == [t \in TrackIds |-> 0]

\* The process after start-up: nothing stored, nothing in flight.
Fresh ==
    /\ now = T0
    /\ playCount = NoPlays
    /\ trendingCache = NoList
    /\ player = StoreInit
    /\ cache = EmptyDb
    /\ cacheAt = [t \in TrackIds |-> NoStamp]
    /\ plays = NoPlays
    /\ playHistory = <<>>
    /\ playDebounce = EmptyMap
    /\ neverPruned = EmptyMap
    /\ playTasks = EmptyBag
    /\ ingest = [i \in Runs |-> IdleRun]
    /\ req = [r \in Slots |-> Idle]
    /\ resp = NoResp

Init ==
    /\ Fresh
    /\ db = EmptyDb
    /\ disk = EmptyDisk

\* A stored track of artist u1 whose files are those of upload 1.
Record(orig, low, medium, high, public) ==
    [id |-> 1, fileUrl |-> orig, fileUrlLow |-> low, fileUrlMedium |-> medium,
     fileUrlHigh |-> high, isPublic |-> public, artistId |-> "u1"]

Maybe(k) == {NoPath, Path(1, k)}

\* Sizes that tell the four files of a track apart.
KindSize(k) ==
    CASE k = "orig" -> 5 [] k = "low" -> 2 [] k = "medium" -> 3 [] k = "high" -> 4

\* Quality resolution: one public track whose record holds any combination of
\* the four paths, over a disk where any combination of the four files exists.
InitResolve ==
    /\ Fresh
    /\ \E o \in Maybe("orig"), l \in Maybe("low"), m \in Maybe("medium"),
          h \in Maybe("high") :
          db = [EmptyDb EXCEPT ![1] = Record(o, l, m, h, TRUE)]
    /\ \E present \in SUBSET Kinds :
          disk = [p \in Paths |->
                    IF p.run = 1 /\ p.kind \in present
                    THEN File("complete", KindSize(p.kind)) ELSE NoFile]

\* Range handling: one track, public or private, whose only file is an
\* original of any of the sizes FileSizes.
InitRange ==
    /\ Fresh
    /\ \E public \in BOOLEAN :
          db = [EmptyDb EXCEPT
                  ![1] = Record(Path(1, "orig"), NoPath, NoPath, NoPath, public)]
    /\ \E n \in FileSizes :
          disk = [EmptyDisk EXCEPT ![Path(1, "orig")] = File("complete", n)]

---------------------------------------------------------------------------
(* Specifications *)

\* Anonymous stream requests at every quality, without a Range header.
NextResolve ==
    \E r \in {1} :
        \/ \E t \in {1, UnknownId} : StreamStart(r, t, NoAuth)
        \/ StreamEnd(r)
        \/ \E q \in QualityParams : CacheHit(r, q, NoRange)
        \/ CacheMiss(r)
        \/ FindUniqueFound(r)
        \/ \E q \in QualityParams : FindUniqueNull(r, q, NoRange)
        \/ \E ok \in BOOLEAN, q \in QualityParams : CacheSet(r, ok, q, NoRange)

SpecResolve == InitResolve /\ [][NextResolve]_vars

\* Stream requests of every caller with every Range header, and the plays
\* they start.
NextRange ==
    \/ \E r \in {1} :
        \/ \E t \in {1, UnknownId}, h \in AuthHeaders : StreamStart(r, t, h)
        \/ StreamEnd(r)
        \/ \E rng \in RangeHeaders \cup {NoRange} : CacheHit(r, "", rng)
        \/ CacheMiss(r)
        \/ FindUniqueFound(r)
        \/ \E rng \in RangeHeaders \cup {NoRange} : FindUniqueNull(r, "", rng)
        \/ \E rng \in RangeHeaders \cup {NoRange} : CacheSet(r, TRUE, "", rng)
    \/ \E task \in PendingTasks : PlayIncr(task, TRUE)
    \/ \E task \in PendingTasks : PlayCreate(task, TRUE)

SpecRange == InitRange /\ [][NextRange]_vars

\* The debouncer alone: trackPlay called for any pair at any instant.
NextPlay ==
    \/ \E p \in PlayPairs : RecordPlay(p[1], p[2])
    \/ \E t \in Instants : Tick(t)
    \/ \E task \in PendingTasks : PlayIncr(task, TRUE)
    \/ \E task \in PendingTasks : PlayCreate(task, TRUE)

SpecPlay == Init /\ [][NextPlay]_vars

---------------------------------------------------------------------------
(* Properties of the stream route *)

Streamed == resp.kind = "stream"
Served == Streamed /\ resp.out.status \in {200, 206} /\ ~resp.out.aborted
Rejected == Streamed /\ resp.out.status \in {403, 404}

\* The paths a track record holds.
PathsOf(track) ==
    {track.fileUrl, track.fileUrlLow, track.fileUrlMedium, track.fileUrlHigh}
        \ {NoPath}

\* Offsets used to read a Range header back as numbers.
ProbeOffsets == SmallOffsets \cup {999, 1000, 1001, 65535}

\* C1: for an existing, authorized track whose file resolves, every header
\* bytes=<start>-<end> with 0 <= start <= end < fileSize is answered 206 with
\* Content-Range start-end/fileSize, Content-Length end - start + 1 and the
\* bytes start..end of the resolved file.
C1_ExactRange ==
    Streamed /\ ~Rejected =>
        \A s \in ProbeOffsets, e \in ProbeOffsets :
            resp.range = Closed(s, e) /\ s <= e /\ e < resp.out.fileSize =>
                /\ resp.out.status = 206 /\ ~resp.out.aborted
                /\ resp.out.start = Num(s) /\ resp.out.end = Num(e)
                /\ resp.out.contentLength = Num(e - s + 1)
                /\ resp.out.file \in PathsOf(resp.track)
                /\ resp.out.fileSize = disk[resp.out.file].size
                /\ resp.out.body = [first |-> s, last |-> e]

\* A request for bytes=0-0 of a non-empty file was served.
C1_Witness ==
    Served /\ resp.range = Closed(0, 0) /\ resp.out.fileSize > 0
           /\ resp.out.body = [first |-> 0, last |-> 0]

\* C2: with a start and no end the served range ends at
\* min(start + chunkSize - 1, fileSize - 1) and carries at most chunkSize
\* bytes; bytes=0- on a 10485760-byte file gives 0-65535 and 65536 bytes.
C2_ChunkCap ==
    Served =>
        \A s \in ProbeOffsets :
            resp.range = Open(s) =>
                /\ resp.out.end = Num(Min(s + streamChunkSize - 1, resp.out.fileSize - 1))
                /\ BodyLen(resp.out.body) <= streamChunkSize
                /\ (s = 0 /\ resp.out.fileSize = 10485760 =>
                        /\ resp.out.end = Num(65535)
                        /\ resp.out.contentLength = Num(65536))

\* C3: when at least one path of the track record names an existing file, a
\* request by an authorized caller at any quality is not answered "not
\* found": it serves an existing file of the track.
C3_NeverNotFound ==
    Streamed /\ resp.track # NoTrack /\ ~Forbidden(resp.track, resp.user)
             /\ (\E p \in PathsOf(resp.track) : existsSync(disk, p)) =>
        /\ resp.out.status # 404
        /\ resp.out.file \in PathsOf(resp.track)
        /\ existsSync(disk, resp.out.file)

\* The candidates of each quality, in order of preference.
Chain(quality) ==
    CASE quality = "low" -> <<"fileUrlLow", "fileUrlMedium", "fileUrl">>
      [] quality = "medium" -> <<"fileUrlMedium", "fileUrl">>
      [] quality = "high" -> <<"fileUrlHigh", "fileUrl">>
      [] quality = "lossless" -> <<"fileUrl">>
      [] quality = "" -> <<"fileUrlMedium", "fileUrl">>

FirstPresent(track, chain) ==
    IF \E i \in 1 .. Len(chain) : track[chain[i]] # NoPath
    THEN track[chain[CHOOSE i \in 1 .. Len(chain) :
                 /\ track[chain[i]] # NoPath
                 /\ \A j \in 1 .. (i - 1) : track[chain[j]] = NoPath]]
    ELSE NoPath

\* C4: the served file is the first present candidate of the chain of the
\* requested quality (low: low, medium, original; medium: medium, original;
\* high: high, original; lossless: original; none given: as medium), and the
\* request is answered 404 when no candidate is present.
C4_Chain ==
    Streamed /\ resp.track # NoTrack /\ ~Forbidden(resp.track, resp.user)
             /\ resp.quality \in {"low", "medium", "high", "lossless", ""} =>
        LET want == FirstPresent(resp.track, Chain(resp.quality))
        IN  IF want # NoPath /\ existsSync(disk, want)
            THEN Served /\ resp.out.file = want
            ELSE resp.out.status = 404

\* A low request fell back to the medium rendition past a missing low one
\* while an original was present.
C4_Witness ==
    /\ Served /\ resp.quality = "low"
    /\ resp.track.fileUrlLow = NoPath /\ resp.track.fileUrl # NoPath
    /\ resp.out.file = resp.track.fileUrlMedium

\* The caller presented a token that verifies and names the owning artist.
IsOwner(auth, track) ==
    auth.scheme = "bearer" /\ auth.valid /\ auth.userId = track.artistId

PlayState == <<playDebounce, playTasks, plays, playHistory>>

\* C5: for an existing track the answer is 403 exactly when the looked-up
\* metadata marks it private and the caller is not the owning artist; then no
\* file is opened, no byte is sent and no play is recorded; no request is
\* answered 401.
C5_Forbidden ==
    [][ (resp'.kind = "stream" /\ resp'.track # NoTrack) =>
          /\ resp'.out.status = 403
                <=> (~resp'.track.isPublic /\ ~IsOwner(resp'.auth, resp'.track))
          /\ resp'.out.status # 401
          /\ resp'.out.status = 403 =>
                /\ resp'.out.file = NoPath /\ resp'.out.body = EmptyBody
                /\ ~resp'.play.called
                /\ UNCHANGED PlayState ]_vars

\* A caller whose token names the owning artist but does not verify was
\* refused a private track.
C5_Witness ==
    /\ Streamed /\ resp.out.status = 403
    /\ resp.auth = Bearer(FALSE, resp.track.artistId)

\* C10: a stream request calls trackPlay exactly when it is served, the
\* caller is authenticated and there is no Range header or the range starts
\* below 1000; otherwise it changes neither the debounce map nor the play
\* counter nor the play history.
C10_Notify ==
    [][ resp'.kind = "stream" =>
          /\ resp'.play.called
                <=> /\ resp'.out.status \in {200, 206} /\ ~resp'.out.aborted
                    /\ resp'.user # NoUser
                    /\ \/ resp'.range = NoRange
                       \/ IsNum(resp'.out.start) /\ Val(resp'.out.start) < 1000
          /\ ~resp'.play.called => UNCHANGED PlayState ]_vars

\* An authenticated caller's request starting at byte 999 called trackPlay.
C10_Witness ==
    Served /\ resp.range = Open(999) /\ resp.play.called /\ resp.play.counted

---------------------------------------------------------------------------
(* Properties of the play debouncer *)

\* C6: a trackPlay call is counted exactly when the pair has no counted play
\* yet or strictly more than 30 s have elapsed since its last counted play.
C6_Debounce ==
    resp.kind \in {"play", "stream"} /\ resp.play.called =>
        (resp.play.counted
            <=> (resp.play.prev = NaN \/ resp.play.at - Val(resp.play.prev) > 30000))

\* One upload through any of the handlers, and stream requests by the artist
\* and by anonymous callers at every quality, whole or by satisfiable ranges.
UploadSizes == {3}
DurationInputs == {NaN, Num(9), Num(-5)}
SpecRanges == {NoRange, Open(0), Closed(1, 2)}
SpecAuth == {NoAuth, Bearer(TRUE, "u1")}

IngestStep ==
    \E i \in {1} :
        \/ \E route \in Routes, audio \in BOOLEAN, titleOk \in BOOLEAN :
              UploadBegin(i, route, audio, titleOk)
        \/ \E n \in UploadSizes : Uploaded(i, n)
        \/ UnlinkUpload(i)
        \/ NextError(i)
        \/ \E ok \in BOOLEAN, d \in DurationInputs : Probe(i, ok, d)
        \/ \E event \in DecodeEvents, fits \in BOOLEAN : Waveform(i, event, fits)
        \/ \E ok \in BOOLEAN : TierEnd(i, ok)
        \/ SlugCheck(i)
        \/ \E public, ok \in BOOLEAN : CreateTrack(i, "u1", public, ok)

StreamStep ==
    \E r \in {1} :
        \/ \E t \in TrackIds, h \in SpecAuth : StreamStart(r, t, h)
        \/ StreamEnd(r)
        \/ \E q \in QualityParams, rng \in SpecRanges : CacheHit(r, q, rng)
        \/ CacheMiss(r)
        \/ FindUniqueFound(r)
        \/ \E q \in QualityParams, rng \in SpecRanges : FindUniqueNull(r, q, rng)
        \/ \E q \in QualityParams, rng \in SpecRanges : CacheSet(r, TRUE, q, rng)

PlayStep ==
    \/ \E task \in PendingTasks : PlayIncr(task, TRUE)
    \/ \E task \in PendingTasks : PlayCreate(task, TRUE)

\* The serverless entry point creates the record of id 2, which no upload of
\* IngestStep takes.
ServerlessStep ==
    \E public, valid, ok \in BOOLEAN, d \in {NaN, Num(9)} :
        ServerlessUpload(2, "u1", public, valid, d, ok)

Next == IngestStep \/ StreamStep \/ PlayStep \/ ServerlessStep

Spec == Init /\ [][Next]_vars

\* The upload alone, where every ffmpeg run ends, with 'end' or with 'error'.
SpecIngest ==
    Init /\ [][IngestStep]_vars
         /\ \A i \in {1} : WF_vars(\E ok \in BOOLEAN : TierEnd(i, ok))

---------------------------------------------------------------------------
(* Properties of the ingest *)

\* The sub-steps of run i have all finished: the original is written, the
\* probe and the waveform have returned, and each tier was attempted and its
\* ffmpeg run has ended.
SubStepsDone(i) ==
    /\ TranscodeDone(ingest[i]) \/ ingest[i].pc = "done"
    /\ disk[Path(i, "orig")].state = "complete"
    /\ \A k \in TierSet : disk[Path(i, k)].state \in {"complete", "partial"}

\* Every path of the metadata names a file that is completely written.
AllWritten(track) == \A p \in PathsOf(track) : disk[p].state = "complete"

\* The record was created by an ingest, which gives every record it creates
\* the path of the uploaded original.
Ingested(track) == Truthy(track.fileUrl)

\* C7: the track record of an ingest is stored only after the probe, the
\* waveform and the three tier transcodes have finished, so neither the store
\* nor the cache nor any stream request holds a record of a run with a
\* sub-step pending, or a path whose file is not completely written.
C7_StoreAfterSubSteps ==
    /\ \A t \in TrackIds :
          /\ AllWritten(db[t]) /\ AllWritten(cache[t])
          /\ Ingested(db[t]) => t \in Runs /\ SubStepsDone(t)
          /\ Ingested(cache[t]) => t \in Runs /\ SubStepsDone(t)
    /\ \A r \in Slots :
          /\ AllWritten(req[r].track)
          /\ Ingested(req[r].track) => SubStepsDone(req[r].track.id)
    /\ Served => SubStepsDone(resp.track.id)
                 /\ disk[resp.out.file].state = "complete"

\* A request was served a rendition of a track whose ingest had a failed tier.
C7_Witness ==
    /\ Served /\ resp.out.file.kind = "low"
    /\ disk[Path(resp.track.id, "high")].state = "partial"

\* C8: transcodeAudio terminates, and when it has returned, its mapping holds
\* exactly the tiers whose ffmpeg run ended with 'end': every tier was
\* attempted, a failed tier is absent even though it left a file.
C8_Mapping(i) ==
    ingest[i].tier > Len(Tiers) =>
        \A k \in TierSet :
            /\ disk[Path(i, k)].state \in {"complete", "partial"}
            /\ ingest[i][k] = IF disk[Path(i, k)].state = "complete"
                              THEN Path(i, k) ELSE NoPath

C8_Transcode ==
    /\ [](\A i \in Runs : C8_Mapping(i))
    /\ \A i \in Runs :
          (ingest[i].pc = "transcode") ~> (ingest[i].tier > Len(Tiers))

\* transcodeAudio returned low and high after the medium tier had failed.
C8_Witness ==
    \E i \in Runs :
        /\ ingest[i].tier > Len(Tiers)
        /\ ingest[i].low # NoPath /\ ingest[i].medium = NoPath
        /\ ingest[i].high # NoPath
        /\ disk[Path(i, "medium")].state = "partial"

\* The three tier transcodes of the track's ingest all failed.
AllTiersFailed(track) ==
    /\ track.id \in Runs
    /\ \A k \in TierSet : disk[Path(track.id, k)].state = "partial"

\* C9: a track whose three tier transcodes failed is playable: an authorized
\* request at low, medium, high or lossless quality is answered 200 or 206
\* with bytes of the original upload.
C9_PlayableWithoutRenditions ==
    Streamed /\ resp.track # NoTrack /\ AllTiersFailed(resp.track)
             /\ ~Forbidden(resp.track, resp.user)
             /\ resp.quality \in {"low", "medium", "high", "lossless"} =>
        /\ Served
        /\ resp.out.file = Path(resp.track.id, "orig")
        /\ BodyLen(resp.out.body) > 0
        /\ resp.out.body.first >= 0
        /\ resp.out.body.last < disk[Path(resp.track.id, "orig")].size

\* A low-quality range request for such a track was served from the original.
C9_Witness ==
    /\ Served /\ AllTiersFailed(resp.track) /\ resp.quality = "low"
    /\ resp.out.status = 206 /\ resp.out.file.kind = "orig"

---------------------------------------------------------------------------
(* Further properties of the play debouncer *)

\* C11: a trackPlay call suppressed by the debounce changes neither the
\* debounce map (the stored timestamp of the pair stays where the last
\* counted play put it) nor the play counter nor the play history, and
\* starts no work.
C11_SuppressedNoOp ==
    [][ resp'.kind = "play" /\ resp'.play.called /\ ~resp'.play.counted =>
          /\ UNCHANGED PlayState
          /\ playDebounce'[resp'.play.key] = Val(resp'.play.prev) ]_vars

\* A call made 29999 ms after the counted play of its pair was suppressed.
C11_Witness ==
    /\ resp.kind = "play" /\ resp.play.called /\ ~resp.play.counted
    /\ resp.play.at = Val(resp.play.prev) + 29999

---------------------------------------------------------------------------
(* The completion route over stored play histories *)

MaxRows == 2

\* Rows as trackPlay writes them (open, duration 0) and as a completion
\* leaves them (completed, with a reported duration).
HistoryRows ==
    {[userId |-> u, trackId |-> t, duration |-> IF c THEN 7 ELSE 0,
      completed |-> c] : u \in Users, t \in {1, 2}, c \in BOOLEAN}

RECURSIVE Histories(_)
Histories(n) ==
    IF n = 0 THEN {<<>>}
    ELSE Histories(n - 1)
         \cup {Append(h, row) : h \in {x \in Histories(n - 1) : Len(x) = n - 1},
                                row \in HistoryRows}

\* The `duration` of the request body: absent, zero, or a number of seconds.
Durations == {NaN, Num(5)}

InitComplete ==
    /\ now = T0
    /\ playCount = NoPlays
    /\ trendingCache = NoList
    /\ player = StoreInit
    /\ db = EmptyDb /\ cache = EmptyDb /\ disk = EmptyDisk
    /\ cacheAt = [t \in TrackIds |-> NoStamp]
    /\ plays = NoPlays
    /\ playDebounce = EmptyMap
    /\ neverPruned = EmptyMap
    /\ playTasks = EmptyBag
    /\ ingest = [i \in Runs |-> IdleRun]
    /\ req = [r \in Slots |-> Idle]
    /\ resp = NoResp
    /\ playHistory \in Histories(MaxRows)

\* Completion requests of u1, of u2 and of anonymous callers for either
\* track, and beside each a second request of u1 for track 1, over a store
\* that answers or rejects.
NextComplete ==
    \/ \E t \in {1, 2}, h \in {NoAuth, Bearer(TRUE, "u1"), Bearer(TRUE, "u2")},
          d \in Durations : CompleteStart(1, t, h, d)
    \/ CompleteStart(2, 1, Bearer(TRUE, "u1"), NaN)
    \/ \E r \in Slots, ok \in BOOLEAN : CompleteFind(r, ok)
    \/ \E r \in Slots, ok \in BOOLEAN : CompleteUpdate(r, ok)

SpecComplete == InitComplete /\ [][NextComplete]_vars

\* Row i of the history is an open row of the user for the track.
IsOpenRowOf(i, user, trackId) ==
    /\ i \in 1 .. Len(playHistory)
    /\ playHistory[i].userId = user /\ playHistory[i].trackId = trackId
    /\ ~playHistory[i].completed

\* The row a completion request looks up is the caller's most recently played
\* open row of the track, and the lookup finds none only when there is none.
C12_Lookup ==
    /\ resp.kind = "findFirst" =>
          /\ resp.user # NoUser
          /\ IsOpenRowOf(resp.row, resp.user, resp.trackId)
          /\ \A j \in (resp.row + 1) .. Len(playHistory) :
                ~IsOpenRowOf(j, resp.user, resp.trackId)
    /\ resp.kind = "complete" /\ resp.status = 200 /\ resp.user # NoUser
          /\ resp.row = 0 =>
          \A j \in 1 .. Len(playHistory) : ~IsOpenRowOf(j, resp.user, resp.trackId)

\* The answer is 200; an authenticated request marks one row completed with
\* the reported duration, a row that until then was the caller's most
\* recently played open row of the track, and leaves every other row as it
\* was; a request without a user or without an open row leaves the history
\* as it was.
C12_Effect ==
    resp'.kind = "complete" =>
        /\ resp'.status = 200
        /\ resp'.user = NoUser => resp'.row = 0
        /\ resp'.row = 0 => UNCHANGED playHistory
        /\ resp'.row # 0 =>
              /\ Len(playHistory') = Len(playHistory)
              /\ \A i \in 1 .. Len(playHistory) :
                    i # resp'.row => playHistory'[i] = playHistory[i]
              /\ playHistory'[resp'.row] =
                    [userId |-> resp'.user, trackId |-> resp'.trackId,
                     duration |-> IF resp'.duration = Num(5) THEN 5 ELSE 0,
                     completed |-> TRUE]
              /\ IsOpenRowOf(resp'.row, resp'.user, resp'.trackId)
              /\ \A j \in (resp'.row + 1) .. Len(playHistory) :
                    ~IsOpenRowOf(j, resp'.user, resp'.trackId)

\* C12: POST /stream/:trackId/complete always answers 200; for an
\* authenticated caller it completes, and sets the duration of, exactly the
\* most recently played open row of that caller for that track and changes
\* no other row, a completed row included; without a user or without an open
\* row it changes nothing.
C12_Complete == []C12_Lookup /\ [][C12_Effect]_vars

\* The same with the store answering every call: the answers are 200, and
\* what remains is the effect on the rows.
C12_CompleteRows ==
    [][resp'.kind = "complete" /\ resp'.status = 200 => C12_Effect]_vars

---------------------------------------------------------------------------
(* The stream route beside a failing play notification *)

NotifyRanges == {NoRange, Open(0), Closed(1, 2), Open(1000)}

\* Stream requests of u1, u2 and anonymous callers, where cache.incr and
\* prisma.playHistory.create may fail.
NextNotify ==
    \/ \E r \in {1} :
        \/ \E h \in {NoAuth, Bearer(TRUE, "u1"), Bearer(TRUE, "u2")} :
              StreamStart(r, 1, h)
        \/ StreamEnd(r)
        \/ \E rng \in NotifyRanges : CacheHit(r, "", rng)
        \/ CacheMiss(r)
        \/ FindUniqueFound(r)
        \/ \E rng \in NotifyRanges : CacheSet(r, TRUE, "", rng)
    \/ \E task \in PendingTasks, ok \in BOOLEAN : PlayIncr(task, ok)
    \/ \E task \in PendingTasks, ok \in BOOLEAN : PlayCreate(task, ok)

SpecNotify == InitRange /\ [][NextNotify]_vars

\* What a request of these runs is owed, told by the caller, the visibility
\* of the track, the Range header and the size n of the file alone: nothing
\* of the debouncer, the counter or the history enters.
C13_Owed(public, user, range, n) ==
    LET last(from) == Min(from + 65536, n - 1)
        none == [status |-> 206, served |-> FALSE, start |-> NaN, end |-> NaN,
                 length |-> NaN, body |-> [first |-> 0, last |-> -1]]
        part(from, to, len) ==
            [status |-> 206, served |-> TRUE, start |-> Num(from), end |-> Num(to),
             length |-> Num(len),
             body |-> IF from <= n - 1 THEN [first |-> from, last |-> Min(to, n - 1)]
                      ELSE [first |-> 0, last |-> -1]]
    IN  IF ~public /\ user # "u1"
        THEN [none EXCEPT !.status = 403]
        ELSE CASE range = NoRange ->
                    [status |-> 200, served |-> TRUE, start |-> NaN, end |-> NaN,
                     length |-> Num(n), body |-> [first |-> 0, last |-> n - 1]]
               [] range = Open(0) ->
                    IF n = 0 THEN none ELSE part(0, last(0), last(0) + 1)
               [] range = Closed(1, 2) -> part(1, 2, 2)
               [] range = Open(1000) ->
                    IF n <= 1000 THEN none ELSE part(1000, last(1000), last(1000) - 999)

\* The response that is started, and the response that has been sent when
\* the read stream ends, are the one the request is owed, in every state of
\* the debouncer and of the notifications under way; only a response that
\* was started is sent.
C13_SameResponse ==
    resp.kind \in {"stream", "sent"} =>
        LET owed == C13_Owed(db[1].isPublic, resp.user, resp.range,
                             disk[Path(1, "orig")].size)
            served == resp.out.status \in {200, 206} /\ ~resp.out.aborted
        IN  /\ resp.out.status = owed.status
            /\ served = owed.served
            /\ served => /\ resp.out.start = owed.start
                         /\ resp.out.end = owed.end
                         /\ resp.out.contentLength = owed.length
                         /\ resp.out.body = owed.body
            /\ resp.kind = "sent" => served

\* A response that was started can end at any moment, whatever notifications
\* are under way.
C13_NeverWaits ==
    \A r \in Slots : req[r].pc = "pipe" => ENABLED StreamEnd(r)

\* The response is started in the step that issues the notification: the
\* counter and the history are untouched by then and the counted call is
\* still pending.  A response that was started stays as it is until it ends,
\* and then it is sent as it was started: no step of a notification, failing
\* or not, touches it.
C13_Undisturbed ==
    /\ resp'.kind = "stream" /\ resp'.play.called =>
          /\ plays' = plays /\ playHistory' = playHistory
          /\ req'[1].pc = "pipe" /\ req'[1].out = resp'.out
          /\ resp'.play.counted =>
                BagIn(Task(resp'.trackId, resp'.user, "incr"), playTasks')
    /\ \A r \in Slots :
          req[r].pc = "pipe" =>
              \/ req'[r] = req[r]
              \/ /\ resp'.kind = "sent" /\ resp'.out = req[r].out
                 /\ resp'.user = req[r].user /\ resp'.range = req[r].range
                 /\ req'[r].pc = "idle"

\* C13: the status, headers and body of a stream response are the same
\* whether the play notification succeeds, is suppressed, or fails in
\* cache.incr or in playHistory.create; the response is started before the
\* notification is issued and does not wait for it.
C13_FireAndForget ==
    []C13_SameResponse /\ []C13_NeverWaits /\ [][C13_Undisturbed]_vars

\* A response has been sent whole after the notification issued with it had
\* failed in both of its steps, and while the next one of the listener is
\* suppressed.
C13_Witness ==
    /\ resp.kind = "sent" /\ resp.user = "u2" /\ resp.out.notify
    /\ Key(1, "u2") \in DOMAIN playDebounce
    /\ plays[1] = 0 /\ playHistory = <<>> /\ playTasks = EmptyBag

---------------------------------------------------------------------------
(* The upload route with failing sub-steps *)

\* One upload through any of the handlers while the store accepts the record.
NextUpload ==
    \E i \in {1} :
        \/ \E route \in Routes, audio \in BOOLEAN, titleOk \in BOOLEAN :
              UploadBegin(i, route, audio, titleOk)
        \/ \E n \in UploadSizes : Uploaded(i, n)
        \/ UnlinkUpload(i)
        \/ NextError(i)
        \/ \E ok \in BOOLEAN, d \in DurationInputs : Probe(i, ok, d)
        \/ \E event \in DecodeEvents, fits \in BOOLEAN : Waveform(i, event, fits)
        \/ \E ok \in BOOLEAN : TierEnd(i, ok)
        \/ SlugCheck(i)
        \/ \E public \in BOOLEAN : CreateTrack(i, "u1", public, TRUE)

SpecUpload == Init /\ [][NextUpload]_vars

TierField(k) ==
    CASE k = "low" -> "fileUrlLow" [] k = "medium" -> "fileUrlMedium"
      [] k = "high" -> "fileUrlHigh"

\* C14: whatever sub-steps fail, an upload with valid input is answered 201
\* and its record is stored: after a failed probe the duration is the
\* caller's or zero and bitrate and sample rate are null, after a failed
\* waveform the waveform is empty, and a failed tier has no path.
C14_SubStepFailuresTolerated ==
    resp.kind = "upload" /\ resp.status # 400 =>
        /\ resp.status = 201
        /\ db[resp.run] # NoTrack
        /\ ~resp.probeOk =>
              /\ resp.track.duration = IF resp.durationInput = Num(9) THEN 9 ELSE 0
              /\ resp.track.bitrate = NaN /\ resp.track.sampleRate = NaN
        /\ ~resp.waveOk => resp.track.waveformData = <<>>
        /\ \A k \in TierSet :
              disk[Path(resp.run, k)].state = "partial" =>
                  /\ resp.track[TierField(k)] = NoPath
                  /\ db[resp.run][TierField(k)] = NoPath

---------------------------------------------------------------------------
(* Further properties of the quality resolution *)

\* C15: a request whose quality parameter is present but is none of low,
\* medium, high, lossless is served the original file, whichever renditions
\* the track has.
C15_UnrecognizedIsOriginal ==
    Streamed /\ resp.track # NoTrack /\ ~Forbidden(resp.track, resp.user)
             /\ resp.quality \notin {"", "low", "medium", "high", "lossless"}
             /\ resp.track.fileUrl # NoPath
             /\ existsSync(disk, resp.track.fileUrl) =>
        Served /\ resp.out.file = resp.track.fileUrl

---------------------------------------------------------------------------
(* Deleting a track beside stream requests *)

\* A stored track of u1, public or private, with its original and its low
\* rendition on disk, cached or not.
InitDelete ==
    /\ Fresh
    /\ \E public \in BOOLEAN :
          db = [EmptyDb EXCEPT
                  ![1] = Record(Path(1, "orig"), Path(1, "low"), NoPath, NoPath,
                                public)]
    /\ disk = [p \in Paths |->
                 IF p.run = 1 /\ p.kind \in {"orig", "low"}
                 THEN File("complete", KindSize(p.kind)) ELSE NoFile]

\* Stream requests in slot 1, delete requests of the owner, of another user
\* and of anonymous callers in slot 2.
NextDelete ==
    \/ \E h \in {NoAuth, Bearer(TRUE, "u1")} : StreamStart(1, 1, h)
    \/ StreamEnd(1)
    \/ \E q \in {"", "low"} : CacheHit(1, q, NoRange)
    \/ CacheMiss(1)
    \/ FindUniqueFound(1)
    \/ \E q \in {"", "low"} : FindUniqueNull(1, q, NoRange)
    \/ \E q \in {"", "low"} : CacheSet(1, TRUE, q, NoRange)
    \/ \E task \in PendingTasks : PlayIncr(task, TRUE)
    \/ \E task \in PendingTasks : PlayCreate(task, TRUE)
    \/ \E h \in {NoAuth, Bearer(TRUE, "u1"), Bearer(TRUE, "u2")} : DeleteStart(2, 1, h)
    \/ DeleteFind(2)
    \/ DeleteRecord(2)
    \/ DeleteCacheDel(2, TRUE)

SpecDelete == InitDelete /\ [][NextDelete]_vars

\* DELETE of track 1 by its owner has completed: the record is gone and no
\* delete request is under way.
DeleteCompleted == db[1] = NoTrack /\ req[2].pc = "idle"

\* C16: after DELETE by the owner has completed, the original and every
\* rendition of the track no longer exist, and a stream request for the id
\* finds neither a stored nor a cached record, so it is answered "not found".
C16_DeleteRemovesFiles ==
    DeleteCompleted =>
        /\ \A k \in Kinds : ~existsSync(disk, Path(1, k))
        /\ req[1].pc = "idle" => cache[1] = NoTrack

---------------------------------------------------------------------------
(* Concurrent uploads and stream requests *)

\* Every upload slot runs one ingest whose probe and waveform succeed and
\* whose tiers end with 'end' or 'error', interleaved with anonymous stream
\* requests for the created tracks at the lowest quality.

NextConcurrent ==
    \/ \E i \in Runs :
          \/ \E route \in {"v1", "v2"} : UploadBegin(i, route, TRUE, TRUE)
          \/ \E n \in UploadSizes : Uploaded(i, n)
          \/ Probe(i, TRUE, NaN)
          \/ Waveform(i, "end", TRUE)
          \/ \E ok \in BOOLEAN : TierEnd(i, ok)
          \/ SlugCheck(i)
          \/ CreateTrack(i, "u1", TRUE, TRUE)
    \/ \E t \in Runs : StreamStart(1, t, NoAuth)
    \/ StreamEnd(1)
    \/ CacheHit(1, "low", Closed(1, 2))
    \/ CacheMiss(1)
    \/ FindUniqueFound(1)
    \/ FindUniqueNull(1, "low", Closed(1, 2))
    \/ CacheSet(1, TRUE, "low", Closed(1, 2))

SpecConcurrent == Init /\ [][NextConcurrent]_vars

\* The paths held by the records of the store.
HeldPaths == UNION {PathsOf(db[t]) : t \in {u \in TrackIds : db[u] # NoTrack}}

\* The paths of a record all carry the uuid of one upload, each of its files
\* is completely written, and a file a stream response reads is complete.
C17_OneRun ==
    /\ \A t \in TrackIds :
          db[t] # NoTrack =>
            /\ \A p \in PathsOf(db[t]) : p.run = db[t].fileUrl.run
            /\ \A p \in PathsOf(db[t]) : disk[p].state = "complete"
    /\ Served => /\ disk[resp.out.file].state = "complete"
                 /\ resp.out.fileSize = disk[resp.out.file].size

\* A record appears in the store whole and is never written again, and no
\* step changes a file whose path a record holds.
C17_Immutable ==
    /\ \A t \in TrackIds : db'[t] # db[t] => db[t] = NoTrack /\ db'[t].fileUrl # NoPath
    /\ \A p \in HeldPaths : disk'[p] = disk[p]

\* C17: under any interleaving of concurrent ingests and stream requests, the
\* rendition paths of a track record all come from the one ingest run that
\* stored its original, the record is written to the store in one operation,
\* and no later operation changes a file whose path a record holds, so a
\* stream response never reads a partially written or changed rendition.
C17_SingleRunRenditions == []C17_OneRun /\ [][C17_Immutable]_vars

\* Track 1 is stored with its low rendition and served from it while the
\* second upload is between its first and its last ffmpeg run.
C17_Witness ==
    /\ db[1] # NoTrack /\ db[1].fileUrlLow = Path(1, "low")
    /\ ingest[2].pc = "transcode" /\ ingest[2].tier \in 2 .. Len(Tiers)
    /\ Served /\ resp.trackId = 1 /\ resp.out.file = Path(1, "low")

---------------------------------------------------------------------------
(* The metadata cache over time *)

\* Anonymous stream requests for the stored track 1 and for the missing
\* track 2 while time passes and redis accepts a write or fails it.  The
\* awaits of a request in flight return within 2 ms; between requests time
\* may pass to any of the instants around the expiry of an entry set early on.
NextCache ==
    \/ \E t \in {T0 + 1, T0 + 2, T0 + CacheTtl * 1000, T0 + CacheTtl * 1000 + 1,
                  T0 + CacheTtl * 1000 + 2} :
          /\ IF \A r \in Slots : req[r].pc = "idle" THEN TRUE ELSE t <= now + 2
          /\ Tick(t)
    \/ \E r \in Slots :
          \/ \E t \in {1, 2} : StreamStart(r, t, NoAuth)
          \/ StreamEnd(r)
          \/ CacheHit(r, "low", Closed(1, 2))
          \/ CacheMiss(r)
          \/ FindUniqueFound(r)
          \/ FindUniqueNull(r, "low", Closed(1, 2))
          \/ \E ok \in BOOLEAN : CacheSet(r, ok, "low", Closed(1, 2))

SpecCache == InitDelete /\ [][NextCache]_vars

\* What the lookup of the answered stream request did to the cache: a miss
\* on an existing track leaves the value it read from the store in the cache
\* with a fresh time to live, a hit uses the value the entry was written with
\* and leaves the entry as it was, and a lookup that finds no track leaves the
\* cache as it was.
LookupEffect ==
    /\ ~resp.lookup.hit /\ resp.track # NoTrack =>
          Entry(resp.trackId) =
              <<resp.track, Stamp(resp.lookup.at, resp.lookup.readAt)>>
    /\ resp.lookup.hit =>
          /\ Entry(resp.trackId) = resp.lookup.before
          /\ resp.lookup.readAt = resp.lookup.before[2].read
    /\ resp.track = NoTrack => Entry(resp.trackId) = resp.lookup.before

\* The same where redis may fail the write of a miss: cache.set swallows the
\* failure, the entry is as it was and the request is answered from the
\* record it read.
LookupEffectIfWritten ==
    /\ ~resp.lookup.hit /\ resp.track # NoTrack =>
          Entry(resp.trackId) =
                IF resp.lookup.written
                THEN <<resp.track, Stamp(resp.lookup.at, resp.lookup.readAt)>>
                ELSE resp.lookup.before
    /\ resp.lookup.hit =>
          /\ Entry(resp.trackId) = resp.lookup.before
          /\ resp.lookup.readAt = resp.lookup.before[2].read
    /\ resp.track = NoTrack => Entry(resp.trackId) = resp.lookup.before

\* The instant at which the entry a hit used had been written.
WrittenAt == resp.lookup.before[2].expires - CacheTtl * 1000

---------------------------------------------------------------------------
(* The debounce map at its pruning threshold *)

\* The map after listener u2 played n other tracks: the tracks numbered by a
\* multiple of 3 at `old`, the others at `recent`.
Crowd(n, old, recent) ==
    [k \in {Key(1000 + j, "u2") : j \in 1 .. n} |->
        IF k[1] % 3 = 0 THEN old ELSE recent]

\* The process with a map one entry short of the threshold, whose entries
\* are 1 ms old, a third of them possibly a minute older.
InitPrune ==
    /\ now = T0
    /\ playCount = NoPlays
    /\ trendingCache = NoList
    /\ player = StoreInit
    /\ db = EmptyDb /\ cache = EmptyDb /\ disk = EmptyDisk
    /\ cacheAt = [t \in TrackIds |-> NoStamp]
    /\ plays = NoPlays
    /\ playHistory = <<>>
    /\ playTasks = EmptyBag
    /\ ingest = [i \in Runs |-> IdleRun]
    /\ req = [r \in Slots |-> Idle]
    /\ resp = NoResp
    /\ \E old \in {T0 - 1, T0 - PruneAgeMs - 1} :
          playDebounce = Crowd(PruneSize - 1, old, T0 - 1)
    /\ neverPruned = playDebounce

\* Calls of trackPlay for track 1 by either listener while time passes.
NextPrune ==
    \/ \E u \in Users : RecordPlay(1, u)
    \/ \E t \in {T0 + 30001, T0 + 60000} : Tick(t)

SpecPrune == InitPrune /\ [][NextPrune]_vars

\* After a counted call that leaves more than 10,000 entries, no entry is
\* older than 60 s before the call.
C19_NoOldEntryLeft ==
    resp.kind = "play" /\ resp.play.counted
        /\ Cardinality(DOMAIN playDebounce) > PruneSize
    => \A k \in DOMAIN playDebounce :
          playDebounce[k] >= resp.play.at - PruneAgeMs

\* A step that removes an entry of the map is a counted call.
C19_OnlyCountedPrunes ==
    ~(DOMAIN playDebounce \subseteq DOMAIN playDebounce')
        => resp'.kind \in {"play", "stream"} /\ resp'.play.counted

\* C19: the debounce map is pruned only inside a counted recordPlay, and
\* after every counted recordPlay that leaves the map with more than 10,000
\* entries no remaining entry has a timestamp older than 60 seconds before
\* that call; the map may hold more than 10,000 entries when all are recent.
C19_SoftBound == []C19_NoOldEntryLeft /\ [][C19_OnlyCountedPrunes]_vars

\* A counted call made after half a minute found more than 10,000 entries,
\* none of them to drop, and left them all.
C19_Witness ==
    /\ resp.kind = "play" /\ resp.play.counted
    /\ Cardinality(DOMAIN playDebounce) > PruneSize
    /\ resp.play.at > T0

---------------------------------------------------------------------------
(* generateWaveform on decoded sequences of every length *)

\* n samples between -1 and 1, in 1/1024ths.
Samples(n, seed) == [k \in 1 .. n |-> ((k * seed) % 2049) - 1024]

\* Upload 1 is a file of any length around the multiples of targetPoints, one
\* without samples, or a recording of 54 minutes, which ffmpeg decodes at
\* 8,000 samples a second to 26,000,000 samples.
WaveformInputs ==
    {Signal(Samples(n, seed)) :
        n \in {0, 1, 2, 3, 199, 200, 201, 399, 400, 401, 600, 601},
        seed \in {1, 7, 13}}
    \cup {Tone(26000000, 256)}

InitWaveform ==
    /\ now = T0
    /\ playCount = NoPlays
    /\ trendingCache = NoList
    /\ player = StoreInit
    /\ db = EmptyDb /\ cache = EmptyDb /\ disk = EmptyDisk
    /\ cacheAt = [t \in TrackIds |-> NoStamp]
    /\ plays = NoPlays
    /\ playHistory = <<>>
    /\ playDebounce = EmptyMap
    /\ neverPruned = EmptyMap
    /\ playTasks = EmptyBag
    /\ req = [r \in Slots |-> Idle]
    /\ resp = NoResp
    /\ \E decoded \in WaveformInputs :
          ingest = [i \in Runs |->
                      IF i = 1 THEN [IdleRun EXCEPT !.decoded = decoded]
                      ELSE IdleRun]

\* One upload up to the return of generateWaveform, whatever its decoding
\* does.
NextWaveform ==
    \/ UploadBegin(1, "v2", TRUE, TRUE)
    \/ \E n \in UploadSizes : Uploaded(1, n)
    \/ Probe(1, TRUE, NaN)
    \/ \E event \in DecodeEvents, fits \in BOOLEAN : Waveform(1, event, fits)

SpecWaveform == InitWaveform /\ [][NextWaveform]_vars

\* generateWaveform has returned to the handler of upload 1.
WaveformReturned == ingest[1].pc = "transcode"

\* C20: for a non-empty decoded sequence of length n generateWaveform returns
\* at most 200 points, exactly ceil(n / ceil(n / 200)) of them, and for a
\* decode error it returns the empty sequence, whatever had been decoded: no
\* call ends in an exception instead.
C20_WaveformLength ==
    /\ resp.kind # "exit"
    /\ WaveformReturned =>
          LET n == ingest[1].decoded.len
              points == Len(ingest[1].waveformData)
          IN  IF ~ingest[1].waveOk THEN ingest[1].waveformData = <<>>
              ELSE n > 0 =>
                  /\ points <= targetPoints
                  /\ \E step \in 1 .. n :
                        /\ (step - 1) * targetPoints < n /\ n <= step * targetPoints
                        /\ (points - 1) * step < n /\ n <= points * step

\* The amplitude of decoded sample i of upload 1, in 1/1024ths.
Amplitude(i) ==
    LET sample == SampleAt(ingest[1].decoded, i)
    IN  IF sample < 0 THEN -sample ELSE sample

\* The samples of window k when the windows have w samples each.
Window(k, w) ==
    {i \in 1 .. ingest[1].decoded.len : (k - 1) * w < i /\ i <= k * w}

\* C21: the windows of generateWaveform are contiguous, of size
\* ceil(n / 200) with the last one possibly shorter, and cover every sample
\* once; point k is the maximum absolute amplitude of window k rounded to two
\* decimals (within half a hundredth of it, a half rounded up), so it lies in
\* [0, 1] when every sample lies in [-1, 1].
C21_WindowMaxima ==
    WaveformReturned /\ ingest[1].waveOk /\ ingest[1].decoded.len > 0 =>
        LET n == ingest[1].decoded.len
            points == ingest[1].waveformData
        IN  \E w \in 1 .. n :
              /\ (w - 1) * targetPoints < n /\ n <= w * targetPoints
              /\ \A i \in 1 .. n : \E k \in 1 .. Len(points) : i \in Window(k, w)
              /\ \A k \in 1 .. Len(points) :
                    /\ Window(k, w) # {}
                    /\ \E i \in Window(k, w) :
                          /\ \A j \in Window(k, w) : Amplitude(j) <= Amplitude(i)
                          /\ 2048 * points[k] - 1024 <= 200 * Amplitude(i)
                          /\ 200 * Amplitude(i) < 2048 * points[k] + 1024
                    /\ 0 <= points[k] /\ points[k] <= 100

\* 401 samples in windows of 3, the last of 2; a point is the amplitude of a
\* negative sample, a point was rounded, and a point is a half rounded up.
C21_Witness ==
    /\ WaveformReturned /\ ingest[1].waveOk
    /\ ingest[1].decoded.len = 401 /\ Len(ingest[1].waveformData) = 134
    /\ \E k \in 1 .. 134 :
          \A i \in Window(k, 3) :
              1024 * ingest[1].waveformData[k] # 100 * Amplitude(i)
    /\ \E k \in 1 .. 134 : \E i \in Window(k, 3) :
          2048 * ingest[1].waveformData[k] - 1024 = 200 * Amplitude(i)
    /\ \E k \in 1 .. 134 : \E i \in Window(k, 3) :
          /\ SampleAt(ingest[1].decoded, i) < 0
          /\ \A j \in Window(k, 3) : Amplitude(j) <= Amplitude(i)

---------------------------------------------------------------------------
(* The duration of a created track *)

\* C22: every track record the upload route creates has a non-negative
\* duration, whatever the probe did and whatever duration the caller sent.
C22_DurationNonNegative ==
    resp.kind = "upload" /\ resp.status = 201 => resp.track.duration >= 0

---------------------------------------------------------------------------
(* The original of a stored track *)

\* The original of every record in the store is a file on disk.
C23_OriginalExists ==
    \A t \in TrackIds : db[t] # NoTrack => existsSync(disk, db[t].fileUrl)

\* A step that removes a file removes no file that a record of the store,
\* before or after the step, names as its original.
C23_CleanupSparesRecords ==
    \A p \in Paths :
        disk[p] # NoFile /\ disk'[p] = NoFile =>
            \A t \in TrackIds :
                /\ db[t] # NoTrack => db[t].fileUrl # p
                /\ db'[t] # NoTrack => db'[t].fileUrl # p

\* C23: every track record in the store, whichever entry point created it, is
\* streamable, its original being a file on disk; the error cleanup of an upload removes the uploaded file
\* only when no record naming it was created, and nothing else removes the
\* original of a record.
C23_Streamable == []C23_OriginalExists /\ [][C23_CleanupSparesRecords]_vars

---------------------------------------------------------------------------
(* The byte range of a 206 response *)

\* C24: every 206 response describes a byte range of the served file:
\* 0 <= start <= end <= fileSize - 1 and Content-Length = end - start + 1 >= 1
\* in the headers sent, for every Range header the server accepts.
C24_ValidRange ==
    Streamed /\ resp.out.status = 206 =>
        /\ IsNum(resp.out.start) /\ IsNum(resp.out.end)
        /\ 0 <= Val(resp.out.start)
        /\ Val(resp.out.start) <= Val(resp.out.end)
        /\ Val(resp.out.end) <= resp.out.fileSize - 1
        /\ resp.out.contentLength = Num(Val(resp.out.end) - Val(resp.out.start) + 1)
        /\ Val(resp.out.contentLength) >= 1

---------------------------------------------------------------------------
(* Editing and deleting a track beside stream requests *)

\* Stream requests of the owner and of another user in slot 1; edits and
\* deletions of the owner and of another user in slot 2.
NextEdit ==
    \/ \E h \in {Bearer(TRUE, "u1"), Bearer(TRUE, "u2")} : StreamStart(1, 1, h)
    \/ StreamEnd(1)
    \/ CacheHit(1, "", NoRange)
    \/ CacheMiss(1)
    \/ FindUniqueFound(1)
    \/ FindUniqueNull(1, "", NoRange)
    \/ CacheSet(1, TRUE, "", NoRange)
    \/ \E task \in PendingTasks : PlayIncr(task, TRUE)
    \/ \E task \in PendingTasks : PlayCreate(task, TRUE)
    \/ \E h \in {Bearer(TRUE, "u1"), Bearer(TRUE, "u2")} : PatchStart(2, 1, h)
    \/ PatchFind(2)
    \/ \E isPublic \in BOOLEAN : PatchUpdate(2, isPublic)
    \/ PatchCacheDel(2, TRUE)
    \/ \E h \in {Bearer(TRUE, "u1"), Bearer(TRUE, "u2")} : DeleteStart(2, 1, h)
    \/ DeleteFind(2)
    \/ DeleteRecord(2)
    \/ DeleteCacheDel(2, TRUE)

SpecEdit == InitDelete /\ [][NextEdit]_vars

\* The metadata a stream request for the track finds when it starts now:
\* the cached entry, else the stored record.
LookedUp(trackId) ==
    IF CacheFind(trackId) # NoTrack THEN CacheFind(trackId) ELSE DbFind(trackId)

\* Every edit and deletion issued has returned, and no stream request is
\* under way: every stream request starts after them.
EditsReturned == \A r \in Slots : req[r].pc = "idle"

\* Once the edits have returned, a stream request of a non-owner for a track
\* that is private is answered 403, and a stream request for a track that
\* is deleted is answered 404.
C25_AnsweredFromStore ==
    EditsReturned =>
        /\ db[1] # NoTrack /\ ~db[1].isPublic =>
              Respond(LookedUp(1), "u2", "", NoRange, disk).status = 403
        /\ db[1] = NoTrack =>
              \A u \in Users : Respond(LookedUp(1), u, "", NoRange, disk).status = 404

\* With no edit or deletion under way, a stream request writes to the cache
\* the metadata the store holds.
C25_NoStaleWrite ==
    req[2].pc = "idle" /\ cache'[1] # cache[1] /\ cache'[1] # NoTrack =>
        cache'[1] = db'[1]

\* C25: edits and deletions invalidate the cached stream metadata under
\* every interleaving with stream requests: after PATCH that makes the track
\* private has returned, a stream request of a non-owner that starts
\* afterwards is answered 403, after DELETE has returned it is answered 404,
\* and a stream request that read the store before the edit does not write
\* the old metadata to the cache after the invalidation.
C25_EditsInvalidate == []C25_AnsweredFromStore /\ [][C25_NoStaleWrite]_vars

---------------------------------------------------------------------------
(* Concurrent stream requests of one listener *)

\* Two stream requests of u1 for track 1 at a time, whole or from byte 0,
\* while less than, and then exactly, 30 seconds pass.
NextListen ==
    \/ \E r \in Slots : StreamStart(r, 1, Bearer(TRUE, "u1"))
    \/ \E r \in Slots : StreamEnd(r)
    \/ \E r \in Slots, rng \in {NoRange, Open(0)} : CacheHit(r, "", rng)
    \/ \E r \in Slots : CacheMiss(r)
    \/ \E r \in Slots : FindUniqueFound(r)
    \/ \E r \in Slots, rng \in {NoRange, Open(0)} : CacheSet(r, TRUE, "", rng)
    \/ \E task \in PendingTasks : PlayIncr(task, TRUE)
    \/ \E task \in PendingTasks : PlayCreate(task, TRUE)
    \/ \E t \in {T0 + 1, T0 + DebounceMs - 1, T0 + DebounceMs} : Tick(t)

SpecListen == InitDelete /\ [][NextListen]_vars

\* The trackPlay calls of the pair that passed the debounce check: those
\* still at one of their awaits and those that recorded their row.
Counted(trackId, userId) ==
    CopiesIn(Task(trackId, userId, "incr"), playTasks)
    + CopiesIn(Task(trackId, userId, "create"), playTasks)
    + Cardinality({i \in 1 .. Len(playHistory) :
                     /\ playHistory[i].trackId = trackId
                     /\ playHistory[i].userId = userId})

\* C26: of the stream requests of one user for one track whose debounce
\* checks fall within 30 seconds of each other, under any interleaving,
\* exactly one is counted as a play: no two of them pass the check.
C26_OneCountedPlay ==
    now < T0 + DebounceMs =>
        /\ Counted(1, "u1") <= 1
        /\ Key(1, "u1") \in DOMAIN playDebounce => Counted(1, "u1") = 1

\* Of two requests under way at once, the first to reach trackPlay was
\* counted and the second, in the same millisecond, was not.
C26_Witness ==
    /\ Streamed /\ resp.play.called /\ ~resp.play.counted
    /\ resp.play.prev = Num(resp.play.at)
    /\ Counted(1, "u1") = 1

---------------------------------------------------------------------------
(* Play counters and the trending order *)

TrendingFrame == <<now, db, cache, cacheAt, disk, plays, playCount, playHistory,
                   playDebounce, neverPruned, playTasks, ingest, player>>

\* GET /tracks/trending arrives: optionalAuth runs and cache.get is issued.
TrendingStart(r) ==
    /\ req[r].pc = "idle"
    /\ req' = [req EXCEPT ![r] = [Idle EXCEPT !.pc = "trendingGet"]]
    /\ resp' = NoResp
    /\ UNCHANGED <<trendingCache, TrendingFrame>>

\* await cache.get returns.  A list that has not expired is answered as it
\* is, without a look at the store; with no entry, or on a Redis error (~ok),
\* which cache.get turns into null, prisma.track.findMany is issued.
TrendingGet(r, ok) ==
    LET hit == ok /\ now < trendingCache.expires
    IN  /\ req[r].pc = "trendingGet"
        /\ req' = [req EXCEPT ![r] = IF hit THEN Idle
                                     ELSE [@ EXCEPT !.pc = "trendingFind"]]
        /\ resp' = IF hit
                   THEN [kind |-> "trending", order |-> trendingCache.tracks,
                         cached |-> TRUE]
                   ELSE NoResp
        /\ UNCHANGED <<trendingCache, TrendingFrame>>

\* await prisma.track.findMany returns the public tracks ordered by
\* playCount, descending (`order` is what the store returns, tracks of equal
\* count in either order), and cache.set is issued.
TrendingFind(r, order) ==
    /\ req[r].pc = "trendingFind"
    /\ Len(order) = Cardinality({t \in TrackIds : db[t] # NoTrack /\ db[t].isPublic})
    /\ \A i \in 1 .. Len(order) : db[order[i]] # NoTrack /\ db[order[i]].isPublic
    /\ \A i, j \in 1 .. Len(order) :
          i < j => order[i] # order[j] /\ playCount[order[i]] >= playCount[order[j]]
    /\ req' = [req EXCEPT ![r].pc = "trendingSet", ![r].tracks = order]
    /\ resp' = NoResp
    /\ UNCHANGED <<trendingCache, TrendingFrame>>

\* await cache.set returns: redis keeps the list for 300 s, unless the write
\* failed (~ok), which cache.set swallows; the handler answers the list that
\* findMany returned.
TrendingSet(r, ok) ==
    /\ req[r].pc = "trendingSet"
    /\ trendingCache' = IF ok THEN [tracks |-> req[r].tracks,
                                    expires |-> now + TrendingTtl * 1000]
                        ELSE trendingCache
    /\ req' = [req EXCEPT ![r] = Idle]
    /\ resp' = [kind |-> "trending", order |-> req[r].tracks, cached |-> FALSE]
    /\ UNCHANGED TrendingFrame

\* Two public tracks of u1 in the store.
InitTrending ==
    /\ Fresh
    /\ db = [t \in TrackIds |->
               [Record(Path(1, "orig"), NoPath, NoPath, NoPath, TRUE) EXCEPT !.id = t]]
    /\ disk = [p \in Paths |->
                 IF p = Path(1, "orig") THEN File("complete", KindSize("orig"))
                 ELSE NoFile]

\* Plays of both tracks by u1 and of track 2 by u2, 30 seconds apart, and
\* readers of the trending list.
NextTrending ==
    \/ \E p \in {<<1, "u1">>, <<2, "u1">>, <<2, "u2">>} : RecordPlay(p[1], p[2])
    \/ \E task \in PendingTasks : PlayIncr(task, TRUE)
    \/ \E task \in PendingTasks : PlayCreate(task, TRUE)
    \/ Tick(T0 + TrendingTtl * 1000)
    \/ TrendingStart(1)
    \/ \E ok \in BOOLEAN : TrendingGet(1, ok)
    \/ \E order \in {<<1, 2>>, <<2, 1>>} : TrendingFind(1, order)
    \/ \E ok \in BOOLEAN : TrendingSet(1, ok)

\* Every step the server has to take is taken: awaits return, and the
\* trending list is read again and again.
SpecTrending ==
    /\ InitTrending /\ [][NextTrending]_vars
    /\ WF_vars(\E task \in PendingTasks : PlayIncr(task, TRUE))
    /\ WF_vars(\E task \in PendingTasks : PlayCreate(task, TRUE))
    /\ WF_vars(TrendingStart(1))
    /\ WF_vars(\E ok \in BOOLEAN : TrendingGet(1, ok))
    /\ WF_vars(\E order \in {<<1, 2>>, <<2, 1>>} : TrendingFind(1, order))
    /\ WF_vars(\E ok \in BOOLEAN : TrendingSet(1, ok))

\* C27: every counted play is eventually reflected in the playCount of its
\* track in the database, the counter plays:<id> being synced to the
\* database, so that the trending order comes to reflect counted plays.
C27_PlaysReachStore ==
    \A t \in {1, 2} : \A n \in 1 .. 4 :
        (plays[t] >= n) ~> (playCount[t] >= n)

---------------------------------------------------------------------------
(* The debouncer beside one that never prunes *)

\* Calls of trackPlay for track 1 by either listener, 20 seconds and then
\* more than a minute after the start, on a map at the threshold.
NextRefine ==
    \/ \E u \in Users : RecordPlay(1, u)
    \/ \E t \in {T0 + 20000, T0 + PruneAgeMs + 1} : Tick(t)

SpecRefine == InitPrune /\ [][NextRefine]_vars

\* C28: pruning changes no debounce decision: on every sequence of calls
\* with non-decreasing times the debouncer counts a call exactly when a
\* debouncer whose map is never pruned counts it.
C28_SameDecisions ==
    [][ resp'.kind = "play" =>
          (resp'.play.counted
              <=> ~Debounced(resp'.play.at, LastPlay(neverPruned, resp'.play.key))) ]_vars

\* A call of u1 was counted although the map held no entry of the pair: the
\* entry of the first counted call of u1 had been pruned.
C28_Witness ==
    /\ resp.kind = "play" /\ resp.play.counted /\ resp.play.prev = NaN
    /\ resp.play.key = Key(1, "u1")
    /\ CopiesIn(Task(1, "u1", "incr"), playTasks) = 2
    /\ Cardinality(DOMAIN playDebounce) < Cardinality(DOMAIN neverPruned)

---------------------------------------------------------------------------
(* The player store *)

\* A listener who plays tracks 1 and 2 alone, from a list, from a list with
\* a track twice and from a list without the track, seeks, and uses every
\* control of the queue.
NextPlayer ==
    \/ \E track \in {1, 2}, queue \in {<<>>, <<1, 2>>, <<2, 1, 2>>, <<2, 3>>} :
          play(track, queue)
    \/ playNext
    \/ playPrevious
    \/ \E time \in 0 .. TrackLen : seek(time)
    \/ onplay
    \/ onstop
    \/ progress
    \/ updateProgress
    \/ onend
    \/ \E track \in {1, 3} : addToQueue(track)
    \/ clearQueue
    \/ \E shuffled \in UNION {Arrangements(q) : q \in {<<>>, <<1>>, <<2>>, <<3>>,
          <<1, 2>>, <<1, 3>>, <<2, 3>>, <<1, 2, 3>>, <<2, 2>>, <<2, 2, 3>>, <<1, 1>>}} :
          toggleShuffle(shuffled)
    \/ \E mode \in {"off", "all", "one"} : setRepeatMode(mode)

SpecPlayer == Init /\ [][NextPlayer]_vars

\* C29: whenever a current track is set, queueIndex is an index of the queue
\* and the queue holds the current track there, after any sequence of play,
\* playNext, playPrevious, addToQueue, clearQueue and toggleShuffle.
C29_IndexNamesCurrent ==
    player.currentTrack # 0 =>
        /\ player.queueIndex \in 0 .. Len(player.queue) - 1
        /\ player.queue[player.queueIndex + 1] = player.currentTrack

---------------------------------------------------------------------------
(* Switching the quality during playback *)

\* The listener leaves at most MaxCallbacks callbacks of a Howl due, and at
\* most MaxTimers deferred seeks pending, before the next call that adds one.
FewDue == CallsDue(player) < MaxCallbacks
FewTimers == BagCardinality(player.timers) < MaxTimers

\* A listener who plays tracks 1 and 2 from a list of both, skips forward and
\* back, pauses, resumes and seeks, and switches the quality while the timer
\* of a switch is pending.
NextQuality ==
    \/ \E track \in {1, 2} : play(track, <<1, 2>>)
    \/ playNext
    \/ playPrevious
    \/ FewDue /\ pause
    \/ FewDue /\ resume
    \/ FewDue /\ togglePlay
    \/ \E time \in 0 .. TrackLen : seek(time)
    \/ onplay
    \/ onpause
    \/ onstop
    \/ progress
    \/ updateProgress
    \/ onend
    \/ \E quality \in {"low", "medium"} : FewTimers /\ setQuality(quality)
    \/ \E timer \in BagToSet(player.timers) : SeekTimer(timer)

SpecQuality == Init /\ [][NextQuality]_vars

\* A step of setQuality during playback: it sets a timer.
Switches == BagCardinality(player'.timers) > BagCardinality(player.timers)

\* A step in which the timer `timer` runs.
Runs500(timer) == CopiesIn(timer, player'.timers) < CopiesIn(timer, player.timers)

\* C30: setQuality during playback loads the current track again at the new
\* quality and sets a seek to the position reached before the switch, and
\* that seek, when it runs 500 ms later, changes the position of no other
\* track, whatever play, playNext, playPrevious or the end of the track did
\* in between.
C30_SeekStaysWithTrack ==
    [][ /\ Switches =>
              /\ player'.howl.track = player.currentTrack
              /\ player'.howl.quality = player'.quality
              /\ player'.currentTrack = player.currentTrack
              /\ \E timer \in BagToSet(player'.timers) :
                    timer.time = player.currentTime
        /\ \A timer \in BagToSet(player.timers) :
              Runs500(timer) =>
                 IF player.howl.track = timer.track
                 THEN player'.howl.pos = timer.time
                 ELSE player'.howl = player.howl
                      /\ player'.currentTime = player.currentTime ]_vars

====
